---------------------------- MODULE Spec2Model ----------------------------
(***************************************************************************)
(* A model of the ingestion pipeline of the real-estate dashboard:         *)
(* src/lib/agents/{types,orchestrator,attom,zillow,county-records,         *)
(* foreclosure-sites,enricher}.ts.                                         *)
(*                                                                         *)
(* Conventions.  A JavaScript string is a sequence of one-character        *)
(* strings, so that length, trimming and the regular expressions of        *)
(* normalizeAddress are computed and not assumed.  A nullable value        *)
(* (T | null, or an optional parameter) is << >> for null/undefined and    *)
(* <<v>> for the value v.                                                  *)
(***************************************************************************)
EXTENDS Integers, Sequences, FiniteSets, TLC

VARIABLES
  \* ---- one run of runSearch (orchestrator.ts) ----
  pc,             \* where runSearch is: "idle", "agents", "enrich", "save", "done"
  params,         \* the SearchParams of the call
  env,            \* process.env: [attomKey]
  agentPromises,  \* the invocations pushed, in push order
  settled,        \* agent function -> its settled promise (domain: those settled)
  errors,         \* runSearch's errors list
  agentResults,   \* runSearch's agentResults list
  allProperties,  \* runSearch's allProperties / enriched list
  totals,         \* [totalFound, totalAfterDedup, totalEnriched, totalSaved]
  calls,          \* calls made to enrichProperties / saveProperties, and whether each threw
  outcome,        \* "pending", "returned" or "thrown": how the call ended
  \* ---- deduplicateProperties, one loop iteration at a time ----
  dProps, dIdx, dSeen, dLast,
  \* ---- mergeProperties applied to one pair, both ways ----
  mA, mB, mAB, mBA, mDone,
  \* ---- one call of an agent's search function ----
  aFn,            \* the function called
  aEnv,           \* process.env and the arguments: [attomKey, county]
  aPc,            \* where the call is
  aSub,           \* foreclosure-sites: scraper -> its settled envelope
  aResult,        \* the call's [properties, errors, requestCount]
  aLog,           \* requests made so far: [made, failed, got]
  aOutcome,       \* "pending", "resolved" or "rejected"
  \* ---- the price filter of runSearch applied to one list ----
  fParams, fProps, fOut, fDone,
  \* ---- enrichProperties, one loop iteration at a time ----
  eProps,         \* the list given
  eIdx,           \* the index of the record the loop is at
  eResults,       \* the results list
  eLog,           \* per iteration: [failed, lookup, geo] as the environment chose
  \* ---- saveProperties called by runSearch, one batch at a time ----
  sN,             \* properties.length
  sPc,            \* "start", "loop" or "done"
  sI,             \* the loop variable i
  sSaved,         \* the local `saved`
  sBatches,       \* per batch upserted so far: "ok" or "error"
  sErrors,        \* runSearch's errors
  sTotalSaved,    \* runSearch's totalSaved
  \* ---- the properties table over several runs ----
  stRows,         \* the rows of the table
  stRuns,         \* how many runs have saved so far
  stLast,         \* the last upsert: [batch, error]
  \* ---- the rate limiter of the ATTOM agent (attom.ts) ----
  lTimestamps,    \* rateLimiter.timestamps
  lNow,           \* the clock, in ms
  lWake,          \* caller -> when its setTimeout is due (null: not waiting)
  lAdmitted,      \* the times at which waitForSlot let a request through
  lTicks,         \* how often the clock has ticked between calls
  \* ---- enrichProperties and the requests it has under way ----
  qProps,         \* the list given
  qKey,           \* whether RAPIDAPI_KEY is set
  qPc,            \* record index -> where its iteration of the loop is
  qInFlight,      \* the requests sent and not yet answered: <<index, service>>
  \* ---- the loop of an agent over the records of one response ----
  rLoop,          \* which loop
  rRecords,       \* the upstream records: for each, whether its mapping throws
  rOut,           \* [properties, errors] once the loop is over
  rDone,
  \* ---- the agent calls of runSearch in the order they completed ----
  settleOrder     \* the names of the calls settled so far, first settled first

orchVars  == <<pc, params, env, agentPromises, settled, errors, agentResults,
               allProperties, totals, calls, outcome>>
dedupVars == <<dProps, dIdx, dSeen, dLast>>
mergeVars == <<mA, mB, mAB, mBA, mDone>>
agentVars == <<aFn, aEnv, aPc, aSub, aResult, aLog, aOutcome>>
filterVars == <<fParams, fProps, fOut, fDone>>
enrichVars == <<eProps, eIdx, eResults, eLog>>
saveVars  == <<sN, sPc, sI, sSaved, sBatches, sErrors, sTotalSaved>>
stepVars  == <<filterVars, enrichVars, saveVars>>
storeVars == <<stRows, stRuns, stLast>>
limiterVars == <<lTimestamps, lNow, lWake, lAdmitted, lTicks>>
flightVars == <<qProps, qKey, qPc, qInFlight>>
loopVars  == <<rLoop, rRecords, rOut, rDone>>
joinVars  == <<settleOrder>>
lateVars  == <<storeVars, limiterVars, flightVars, loopVars, joinVars>>
vars      == <<orchVars, dedupVars, mergeVars, agentVars, stepVars, lateVars>>

-----------------------------------------------------------------------------
(* Nullable values *)

Null == << >>

Some(v) == <<v>>

IsNull(x) == x = Null

\* JavaScript truthiness of a nullable number / nullable string
TruthyNum(x) == x # Null /\ x[1] # 0

TruthyStr(x) == x # Null /\ x[1] # << >>

-----------------------------------------------------------------------------
(* Strings *)

LowerChars == <<"a","b","c","d","e","f","g","h","i","j","k","l","m",
                "n","o","p","q","r","s","t","u","v","w","x","y","z">>

UpperChars == <<"A","B","C","D","E","F","G","H","I","J","K","L","M",
                "N","O","P","Q","R","S","T","U","V","W","X","Y","Z">>

Digits == {"0","1","2","3","4","5","6","7","8","9"}

Range(s) == {s[i] : i \in DOMAIN s}

\* \w of a JavaScript regular expression
IsWordChar(c) == c \in Range(LowerChars) \cup Range(UpperChars) \cup Digits \cup {"_"}

\* \s (the models use the blank only)
IsSpace(c) == c = " "

ToUpperChar(c) ==
  IF c \in Range(LowerChars)
  THEN UpperChars[CHOOSE i \in DOMAIN LowerChars : LowerChars[i] = c]
  ELSE c

ToLowerChar(c) ==
  IF c \in Range(UpperChars)
  THEN LowerChars[CHOOSE i \in DOMAIN UpperChars : UpperChars[i] = c]
  ELSE c

toUpperCase(s) == [i \in DOMAIN s |-> ToUpperChar(s[i])]

toLowerCase(s) == [i \in DOMAIN s |-> ToLowerChar(s[i])]

SetMin(S) == CHOOSE x \in S : \A y \in S : x <= y

SetMax(S) == CHOOSE x \in S : \A y \in S : x >= y

TrimLeft(s) ==
  LET keep == {i \in DOMAIN s : ~IsSpace(s[i])}
  IN  IF keep = {} THEN << >> ELSE SubSeq(s, SetMin(keep), Len(s))

TrimRight(s) ==
  LET keep == {i \in DOMAIN s : ~IsSpace(s[i])}
  IN  IF keep = {} THEN << >> ELSE SubSeq(s, 1, SetMax(keep))

trim(s) == TrimRight(TrimLeft(s))

\* s has t as a substring starting at position i
HasAt(s, i, t) ==
  /\ i + Len(t) - 1 <= Len(s)
  /\ \A k \in 1..Len(t) : s[i + k - 1] = t[k]

\* \b at the gap before position i (i = Len(s)+1: the end of the string)
WordAt(s, i) == i >= 1 /\ i <= Len(s) /\ IsWordChar(s[i])

IsBoundary(s, i) == WordAt(s, i - 1) # WordAt(s, i)

\* the length of the longest run of blanks (of non-blanks) from i on: the
\* number of positions j with nothing but blanks (non-blanks) in i..j
SpaceRun(s, i) ==
  Cardinality({j \in i..Len(s) : \A m \in i..j : IsSpace(s[m])})

NonSpaceRun(s, i) ==
  Cardinality({j \in i..Len(s) : \A m \in i..j : ~IsSpace(s[m])})

-----------------------------------------------------------------------------
(* types.ts: normalizeAddress *)

\* the alternatives of /\b(APT|UNIT|STE|SUITE|#)\s*\S+/gi, in their order
UnitDesignators == <<<<"A","P","T">>, <<"U","N","I","T">>, <<"S","T","E">>, <<"S","U","I","T","E">>, <<"#">>>>

\* the abbreviations table, in insertion order
Abbreviations == <<
  <<<<"S","T","R","E","E","T">>, <<"S","T">>>>,
  <<<<"A","V","E","N","U","E">>, <<"A","V","E">>>>,
  <<<<"B","O","U","L","E","V","A","R","D">>, <<"B","L","V","D">>>>,
  <<<<"D","R","I","V","E">>, <<"D","R">>>>,
  <<<<"L","A","N","E">>, <<"L","N">>>>,
  <<<<"R","O","A","D">>, <<"R","D">>>>,
  <<<<"C","O","U","R","T">>, <<"C","T">>>>,
  <<<<"P","L","A","C","E">>, <<"P","L">>>>,
  <<<<"C","I","R","C","L","E">>, <<"C","I","R">>>>,
  <<<<"T","E","R","R","A","C","E">>, <<"T","E","R">>>>,
  <<<<"H","I","G","H","W","A","Y">>, <<"H","W","Y">>>>,
  <<<<"P","A","R","K","W","A","Y">>, <<"P","K","W","Y">>>>,
  <<<<"N","O","R","T","H">>, <<"N">>>>,
  <<<<"S","O","U","T","H">>, <<"S">>>>,
  <<<<"E","A","S","T">>, <<"E">>>>,
  <<<<"W","E","S","T">>, <<"W">>>>,
  <<<<"N","O","R","T","H","E","A","S","T">>, <<"N","E">>>>,
  <<<<"N","O","R","T","H","W","E","S","T">>, <<"N","W">>>>,
  <<<<"S","O","U","T","H","E","A","S","T">>, <<"S","E">>>>,
  <<<<"S","O","U","T","H","W","E","S","T">>, <<"S","W">>>> >>

\* The length of the match of (d)\s*\S+ at i for designator d, 0 for none.
\* \s* is greedy and \S+ needs one character: giving blanks back never helps.
DesignatorMatch(s, i, d) ==
  IF ~HasAt(s, i, d) THEN 0
  ELSE LET j == i + Len(d)
           k == j + SpaceRun(s, j)
           t == NonSpaceRun(s, k)
       IN  IF t >= 1 THEN (k + t) - i ELSE 0

\* The length of the match of the whole expression at i (first alternative
\* that matches), 0 for none.
UnitMatch(s, i) ==
  IF ~IsBoundary(s, i) THEN 0
  ELSE LET hits == {n \in DOMAIN UnitDesignators :
                      DesignatorMatch(s, i, UnitDesignators[n]) > 0}
       IN  IF hits = {} THEN 0
           ELSE DesignatorMatch(s, i,
                  UnitDesignators[CHOOSE n \in hits : \A m \in hits : n <= m])

\* normalized.replace(/\b(APT|UNIT|STE|SUITE|#)\s*\S+/gi, ''): the scan
\* from i finds the leftmost match, drops it and goes on after it
RECURSIVE StripUnits(_, _)
StripUnits(s, i) ==
  LET hits == {p \in i..Len(s) : UnitMatch(s, p) > 0}
  IN  IF hits = {} THEN SubSeq(s, i, Len(s))
      ELSE SubSeq(s, i, SetMin(hits) - 1)
             \o StripUnits(s, SetMin(hits) + UnitMatch(s, SetMin(hits)))

\* normalized.replace(new RegExp(`\\b${full}\\b`, 'g'), abbr)
RECURSIVE ReplaceWord(_, _, _, _)
ReplaceWord(s, i, full, abbr) ==
  LET hits == {p \in i..Len(s) :
                 HasAt(s, p, full) /\ IsBoundary(s, p) /\ IsBoundary(s, p + Len(full))}
  IN  IF hits = {} THEN SubSeq(s, i, Len(s))
      ELSE SubSeq(s, i, SetMin(hits) - 1) \o abbr
             \o ReplaceWord(s, SetMin(hits) + Len(full), full, abbr)

\* The loop over Object.entries(abbreviations), passes lo..hi in order.
\* The passes are split in two halves, and the result of the first half is
\* evaluated (its length taken) before the second half starts, which keeps
\* the evaluation shallow; the order of the passes is that of the loop.
RECURSIVE ApplyPasses(_, _, _)
ApplyPasses(s, lo, hi) ==
  IF lo = hi
  THEN ReplaceWord(s, 1, Abbreviations[lo][1], Abbreviations[lo][2])
  ELSE LET mid   == (lo + hi) \div 2
           first == ApplyPasses(s, lo, mid)
       IN  IF Len(first) >= 0 THEN ApplyPasses(first, mid + 1, hi) ELSE first

ApplyAbbreviations(s) == ApplyPasses(s, 1, Len(Abbreviations))

\* normalized.replace(/\s+/g, ' '): a run of one blank is replaced by
\* itself, so the scan stops at the runs of two or more
RECURSIVE CollapseSpaces(_, _)
CollapseSpaces(s, i) ==
  LET hits == {p \in i..Len(s) : IsSpace(s[p]) /\ SpaceRun(s, p) >= 2}
  IN  IF hits = {} THEN SubSeq(s, i, Len(s))
      ELSE SubSeq(s, i, SetMin(hits) - 1) \o <<" ">>
             \o CollapseSpaces(s, SetMin(hits) + SpaceRun(s, SetMin(hits)))

\* normalized.replace(/[.,]+$/, '')
StripTrailingPunct(s) ==
  LET keep == {i \in DOMAIN s : s[i] \notin {".", ","}}
  IN  IF keep = {} THEN << >> ELSE SubSeq(s, 1, SetMax(keep))

\* each step is evaluated (its length taken) before the next one starts
normalizeAddress(address) ==
  IF address = << >> THEN << >>
  ELSE LET n1 == trim(toUpperCase(address))
           n2 == StripUnits(n1, 1)
           n3 == ApplyAbbreviations(n2)
           n4 == trim(CollapseSpaces(n3, 1))
       IN  IF Len(n1) >= 0 /\ Len(n2) >= 0 /\ Len(n3) >= 0 /\ Len(n4) >= 0
           THEN StripTrailingPunct(n4)
           ELSE << >>

-----------------------------------------------------------------------------
(* types.ts: ScrapedProperty *)

\* The fields typed "T | null" in ScrapedProperty.
NullableFields ==
  {"sourceUrl", "latitude", "longitude", "bedrooms", "bathrooms", "sqft",
   "lotSize", "yearBuilt", "listPrice", "estimatedValue", "zestimate",
   "arvEstimate", "lastSalePrice", "lastSaleDate", "loanBalance",
   "equityEstimate", "ownerName"}

\* The `fields` list of mergeProperties: the nullable fields and the two
\* plain strings county and propertyType.  All of them are held as nullable
\* values so that the test `== null` is one test; county and propertyType
\* are never null ('' is a value).
MergeFields == NullableFields \cup {"county", "propertyType"}

\* source holds the list of names a comma-joined string stands for:
\* <<"zillow">> is 'zillow', <<"zillow", "attom">> is 'zillow,attom'.
emptyScrapedProperty(source, now) ==
  [ sourceId |-> "", source |-> <<source>>, sourceUrl |-> Null,
    address |-> << >>, city |-> << >>, state |-> << >>, zip |-> << >>,
    county |-> Some(""), latitude |-> Null, longitude |-> Null,
    propertyType |-> Some("single-family"),
    bedrooms |-> Null, bathrooms |-> Null, sqft |-> Null, lotSize |-> Null,
    yearBuilt |-> Null, listPrice |-> Null, estimatedValue |-> Null,
    zestimate |-> Null, arvEstimate |-> Null, lastSalePrice |-> Null,
    lastSaleDate |-> Null, loanBalance |-> Null, equityEstimate |-> Null,
    ownerName |-> Null, ownerOccupied |-> FALSE, distressTypes |-> << >>,
    scrapedAt |-> now ]

-----------------------------------------------------------------------------
(* orchestrator.ts: mergeProperties, deduplicateProperties *)

\* Array.from(new Set([...a, ...b])): first occurrences, in order
RECURSIVE Distinct(_)
Distinct(s) ==
  IF s = << >> THEN << >>
  ELSE LET front == Distinct(SubSeq(s, 1, Len(s) - 1))
           last  == s[Len(s)]
       IN  IF last \in Range(front) THEN front ELSE Append(front, last)

\* a stand-in for the field loop in which the incoming value wins
MergeIncomingWins(base, incoming) ==
  [f \in DOMAIN base |->
     IF f \in MergeFields /\ incoming[f] # Null THEN incoming[f] ELSE base[f]]

\* a stand-in for the field loop that fills nothing in
MergeKeepsBase(base, incoming) == base

\* the for-loop over `fields`
MergeScalars(base, incoming) ==
  [f \in DOMAIN base |->
     IF f \in MergeFields /\ base[f] = Null /\ incoming[f] # Null
     THEN incoming[f]
     ELSE base[f]]

\* a stand-in for the source step without its test
MergeSourceAlways(mergedSource, incomingSource) == mergedSource \o incomingSource

\* `if (incoming.source && incoming.source !== merged.source)`
MergeSource(mergedSource, incomingSource) ==
  IF incomingSource # << >> /\ incomingSource # mergedSource
  THEN mergedSource \o incomingSource
  ELSE mergedSource

mergeProperties(base, incoming) ==
  [MergeScalars(base, incoming) EXCEPT
     !.distressTypes = Distinct(base.distressTypes \o incoming.distressTypes),
     !.source = MergeSource(base.source, incoming.source)]

\* `${prop.address}, ${prop.city}, ${prop.state} ${prop.zip}`
KeyText(prop) ==
  prop.address \o <<",", " ">> \o prop.city \o <<",", " ">> \o prop.state
    \o <<" ">> \o prop.zip

DedupKey(prop) == normalizeAddress(KeyText(prop))

\* `!key || key.length < 5`
MinKeyLength == 5

TooShort(key) == key = << >> \/ Len(key) < MinKeyLength

\* The Map `seen` is the sequence of its entries in insertion order.  A key
\* is <<"addr", text, 0>>, or <<"unknown", << >>, n>> for
\* `__unknown_${Math.random()}`, n being fresh (two draws of Math.random are
\* taken to differ).
SeenIndex(seen, key) ==
  IF \E i \in DOMAIN seen : seen[i].key = key
  THEN CHOOSE i \in DOMAIN seen : seen[i].key = key
  ELSE 0

\* one iteration of the loop of deduplicateProperties, text being the
\* normalized address of prop
KeyedStep(seen, prop, text) ==
  IF TooShort(text)
  THEN Append(seen, [key |-> <<"unknown", << >>, Len(seen) + 1>>, prop |-> prop])
  ELSE LET key == <<"addr", text, 0>>
           i   == SeenIndex(seen, key)
       IN  IF i = 0
           THEN Append(seen, [key |-> key, prop |-> prop])
           ELSE [seen EXCEPT ![i].prop = mergeProperties(seen[i].prop, prop)]

DedupStep(seen, prop) == KeyedStep(seen, prop, DedupKey(prop))

\* the loop; a call evaluates the map it is given (takes its length) before
\* the next iteration starts
RECURSIVE DedupFold(_, _)
DedupFold(seen, props) ==
  IF Len(seen) < 0 \/ props = << >> THEN seen
  ELSE DedupFold(DedupStep(seen, Head(props)), Tail(props))

\* Array.from(seen.values())
Values(seen) == [i \in DOMAIN seen |-> seen[i].prop]

deduplicateProperties(props) == Values(DedupFold(<< >>, props))

-----------------------------------------------------------------------------
(* Inputs: the records the specifications draw from *)

AddrMain     == <<"1","2"," ","M","a","i","n"," ","S","t">>
AddrMainLong == <<"1","2"," ","M","A","I","N"," ","S","T","R","E","E","T">>
AddrOak      == <<"7"," ","O","a","k"," ","R","d">>
CityMesa     == <<"M","e","s","a">>
StateAZ      == <<"A","Z">>
Zip85201     == <<"8","5","2","0","1">>

\* a record as an agent builds it: emptyScrapedProperty, then assignments
Rec(src, addr, city, price, zest, loan, owner, county, dts) ==
  [emptyScrapedProperty(src, 0) EXCEPT
     !.address = addr, !.city = city, !.state = StateAZ,
     !.zip = IF city = << >> THEN << >> ELSE Zip85201,
     !.listPrice = price, !.zestimate = zest, !.loanBalance = loan,
     !.ownerName = owner, !.county = Some(county), !.distressTypes = dts]

\* pairs for mergeProperties: every combination of a few populated fields
MergePool ==
  { Rec(src, addr, CityMesa, price, Null, Null, owner, county, dts) :
      src \in {"zillow", "attom"},
      addr \in {AddrMain, AddrMainLong},
      price \in {Null, Some(100), Some(150)},
      owner \in {Null, Some("Ann")},
      county \in {"", "Maricopa"},
      dts \in {<<"Pre-Foreclosure">>, <<"Auction", "Pre-Foreclosure">>} }

\* lists for deduplicateProperties
DedupPool ==
  { Rec("zillow", AddrMain, CityMesa, Some(100), Null, Null, Null, "", << >>),
    Rec("attom", AddrMainLong, CityMesa, Some(150), Some(200), Null,
        Some("Ann"), "Maricopa", <<"Pre-Foreclosure">>),
    Rec("county-records", AddrMain, CityMesa, Null, Null, Some(120),
        Some("Bob"), "Maricopa", <<"Pre-Foreclosure", "NOD">>),
    Rec("zillow", AddrOak, CityMesa, Some(90), Null, Null, Null, "", << >>),
    Rec("foreclosure-sites", << >>, CityMesa, Some(80), Null, Null, Null, "",
        <<"REO">>),
    Rec("attom", << >>, << >>, Null, Some(70), Null, Null, "", <<"Auction">>) }

\* the longest list deduplicateProperties is given
MaxDedupLen == 3

RECURSIVE SeqsUpTo(_, _)
SeqsUpTo(S, n) ==
  IF n = 0 THEN {<< >>}
  ELSE LET shorter == SeqsUpTo(S, n - 1)
       IN  shorter \cup {Append(s, x) : s \in {t \in shorter : Len(t) = n - 1}, x \in S}

-----------------------------------------------------------------------------
(* mergeProperties applied to a pair, both ways round *)

MergeInit ==
  /\ mA \in MergePool
  /\ mB \in MergePool
  /\ mAB = mA
  /\ mBA = mB
  /\ mDone = FALSE

MergeBoth ==
  /\ ~mDone
  /\ mAB' = mergeProperties(mA, mB)
  /\ mBA' = mergeProperties(mB, mA)
  /\ mDone' = TRUE
  /\ UNCHANGED <<mA, mB>>

(* deduplicateProperties, one iteration of its loop per step *)

DedupInit ==
  /\ dProps \in SeqsUpTo(DedupPool, MaxDedupLen)
  /\ dIdx = 1
  /\ dSeen = << >>
  /\ dLast = [kind |-> "none", at |-> 0]

\* what the iteration on prop does to the map: which entry, and how
StepKind(seen, prop) ==
  IF TooShort(DedupKey(prop)) THEN [kind |-> "unique", at |-> Len(seen) + 1]
  ELSE LET i == SeenIndex(seen, <<"addr", DedupKey(prop), 0>>)
       IN  IF i = 0 THEN [kind |-> "new", at |-> Len(seen) + 1]
           ELSE [kind |-> "merge", at |-> i]

DedupIter ==
  /\ dIdx <= Len(dProps)
  /\ dSeen' = DedupStep(dSeen, dProps[dIdx])
  /\ dLast' = StepKind(dSeen, dProps[dIdx])
  /\ dIdx' = dIdx + 1
  /\ UNCHANGED dProps

-----------------------------------------------------------------------------
(* enricher.ts *)

\* Math.round(x * 1.1) and Math.round(x * 1.3) for a whole x >= 0
RoundTimes(x, tenths) == (x * tenths + 5) \div 10

\* enrichZestimate; lookup is what getZestimate resolves to (null when the
\* lookup fails or finds nothing)
enrichZestimate(p, lookup) ==
  IF TruthyNum(p.zestimate) THEN p
  ELSE IF p.address = << >> \/ p.city = << >> \/ p.state = << >> THEN p
  ELSE IF ~TruthyNum(lookup) THEN p
  ELSE [p EXCEPT !.zestimate = lookup,
                 !.estimatedValue =
                    IF TruthyNum(p.estimatedValue) THEN p.estimatedValue ELSE lookup]

\* a stand-in for estimateARV that looks at listPrice first
estimateARVListPriceFirst(p) ==
  IF TruthyNum(p.arvEstimate) THEN p
  ELSE IF TruthyNum(p.listPrice)
       THEN [p EXCEPT !.arvEstimate = Some(RoundTimes(p.listPrice[1], 13))]
  ELSE IF TruthyNum(p.zestimate)
       THEN [p EXCEPT !.arvEstimate = Some(RoundTimes(p.zestimate[1], 11))]
  ELSE IF TruthyNum(p.estimatedValue)
       THEN [p EXCEPT !.arvEstimate = Some(RoundTimes(p.estimatedValue[1], 11))]
  ELSE p

estimateARV(p) ==
  IF TruthyNum(p.arvEstimate) THEN p
  ELSE IF TruthyNum(p.zestimate)
       THEN [p EXCEPT !.arvEstimate = Some(RoundTimes(p.zestimate[1], 11))]
  ELSE IF TruthyNum(p.estimatedValue)
       THEN [p EXCEPT !.arvEstimate = Some(RoundTimes(p.estimatedValue[1], 11))]
  ELSE IF TruthyNum(p.listPrice)
       THEN [p EXCEPT !.arvEstimate = Some(RoundTimes(p.listPrice[1], 13))]
  ELSE p

calculateEquity(p) ==
  LET value == IF p.zestimate # Null THEN p.zestimate ELSE p.estimatedValue
  IN  IF TruthyNum(value) /\ TruthyNum(p.loanBalance)
      THEN [p EXCEPT !.equityEstimate = Some(value[1] - p.loanBalance[1])]
      ELSE p

\* geocodeAddress; geo is what Nominatim yields: null (an error, a non-200
\* answer, no hit, unparsable numbers) or <<lat, lon>>
geocodeAddress(p, geo) ==
  IF TruthyNum(p.latitude) /\ TruthyNum(p.longitude) THEN p
  ELSE IF p.address = << >> THEN p
  ELSE IF geo = Null THEN p
  ELSE [p EXCEPT !.latitude = Some(geo[1][1]), !.longitude = Some(geo[1][2])]

enrichProperty(p, lookup, geo) ==
  geocodeAddress(calculateEquity(estimateARV(enrichZestimate(p, lookup))), geo)

\* enrichProperties: one record after the other, in order
enrichProperties(props, lookup, geo) ==
  [i \in DOMAIN props |-> enrichProperty(props[i], lookup, geo)]

-----------------------------------------------------------------------------
(* orchestrator.ts: saveProperties *)

batchSize == 50

Min(a, b) == IF a < b THEN a ELSE b

\* the loop over the batches from record i on: batchFails[k] tells whether the
\* upsert of batch k reports an error; count is batch.length
RECURSIVE SaveBatches(_, _, _, _)
SaveBatches(n, i, k, batchFails) ==
  IF i >= n THEN 0
  ELSE LET size == Min(batchSize, n - i)
       IN  (IF batchFails[k] THEN 0 ELSE size)
             + SaveBatches(n, i + batchSize, k + 1, batchFails)

BatchCount(n) == (n + batchSize - 1) \div batchSize

\* saveProperties: [threw, saved]. getServiceClient throws when the store's
\* credentials are missing, after the empty list has returned 0.
saveProperties(props, storeConfigured, batchFails) ==
  IF Len(props) = 0 THEN [threw |-> FALSE, saved |-> 0]
  ELSE IF ~storeConfigured THEN [threw |-> TRUE, saved |-> 0]
  ELSE [threw |-> FALSE, saved |-> SaveBatches(Len(props), 0, 1, batchFails)]

-----------------------------------------------------------------------------
(* orchestrator.ts: runSearch *)

\* the cities guessCounty maps to 'maricopa' (with state az)
MaricopaCities == {<<"p","h","o","e","n","i","x">>, <<"s","c","o","t","t","s","d","a","l","e">>, <<"m","e","s","a">>, <<"t","e","m","p","e">>, <<"c","h","a","n","d","l","e","r">>, <<"g","l","e","n","d","a","l","e">>, <<"g","i","l","b","e","r","t">>, <<"p","e","o","r","i","a">>, <<"s","u","r","p","r","i","s","e">>, <<"g","o","o","d","y","e","a","r">>, <<"a","v","o","n","d","a","l","e">>, <<"b","u","c","k","e","y","e">>}

\* guessCounty: lookup[`${city.toLowerCase()}-${state.toLowerCase()}`] ?? city.toLowerCase()
guessCounty(city, state) ==
  LET c == toLowerCase(city)
      s == toLowerCase(state)
  IN  IF s = <<"a","z">> /\ c \in MaricopaCities THEN <<"m","a","r","i","c","o","p","a">>
      ELSE IF s = <<"a","z">> /\ c = <<"t","u","c","s","o","n">> THEN <<"p","i","m","a">>
      ELSE IF s = <<"a","z">> /\ c = <<"f","l","a","g","s","t","a","f","f">> THEN <<"c","o","c","o","n","i","n","o">>
      ELSE c

\* `params.city ?? ''`
OrEmpty(x) == IF x = Null THEN << >> ELSE x[1]

\* a stand-in for the validation that rejects only when both are missing
MissingBoth(city, state) == city = << >> /\ state = << >>

\* `!city || !state`
MissingCriteria(city, state) == city = << >> \/ state = << >>

\* `!params.source`: absent or ''
SourceUnset(p) == p.source = Null \/ p.source[1] = ""

\* a stand-in for the source test that lets every source through
SourceAny(p, name) == TRUE

SourceIs(p, name) == p.source # Null /\ p.source[1] = name

\* a stand-in for the credential test that takes the key as always present
AttomAssumed(e) == TRUE

\* `process.env.ATTOM_API_KEY` (truthy)
AttomConfigured(e) == e.attomKey

Intersects(list, S) == \E i \in DOMAIN list : list[i] \in S

\* lines 82-121: the invocations pushed on agentPromises, in order
SelectAgents(p, e) ==
  LET city  == OrEmpty(p.city)
      state == OrEmpty(p.state)
      distressTypes == OrEmpty(p.distressTypes)
      wantsForeclosure ==
        distressTypes = << >> \/ Intersects(distressTypes, {"Auction", "Pre-Foreclosure", "NOD"})
      wantsPreForeclosure ==
        distressTypes = << >> \/ Intersects(distressTypes, {"Pre-Foreclosure", "NOD", "Lis Pendens"})
      wantsREO == distressTypes = << >> \/ Intersects(distressTypes, {"REO"})
      zillowDistress == IF Len(distressTypes) = 1 THEN Some(distressTypes[1]) ELSE Null
      zillow ==
        IF SourceUnset(p) \/ SourceIs(p, "zillow")
        THEN <<[fn |-> "zillowSearch", source |-> "zillow",
                args |-> <<city, state, zillowDistress>>]>>
        ELSE << >>
      sites ==
        IF (SourceUnset(p) \/ SourceIs(p, "foreclosure-sites")) /\ (wantsForeclosure \/ wantsREO)
        THEN <<[fn |-> "searchAllForeclosureSites", source |-> "foreclosure-sites",
                args |-> <<city, state, Null>>]>>
        ELSE << >>
      attomOn == (SourceUnset(p) \/ SourceIs(p, "attom")) /\ AttomConfigured(e)
      attomPre ==
        IF attomOn /\ wantsPreForeclosure
        THEN <<[fn |-> "searchPreForeclosures", source |-> "attom",
                args |-> <<city, state, Null>>]>>
        ELSE << >>
      attomFc ==
        IF attomOn /\ wantsForeclosure
        THEN <<[fn |-> "searchForeclosures", source |-> "attom",
                args |-> <<city, state, Null>>]>>
        ELSE << >>
      county ==
        IF (SourceUnset(p) \/ SourceIs(p, "county-records")) /\ wantsPreForeclosure
        THEN <<[fn |-> "searchNODFilings", source |-> "county-records",
                args |-> <<guessCounty(city, state), state, Null>>]>>
        ELSE << >>
  IN  zillow \o sites \o attomPre \o attomFc \o county

\* An entry of an errors list.  `from` is not a field of AgentError: it
\* records which call the message is about (the code puts that in the text).
Err(message, from) == [message |-> message, from |-> from]

\* a stand-in for the join that resumes on the first settled promise
AnySettled(promises, settledMap) ==
  promises = << >> \/ \E i \in DOMAIN promises : promises[i].fn \in DOMAIN settledMap

\* line 124: `await Promise.allSettled(agentPromises)` resumes when every
\* promise has settled
AllSettled(promises, settledMap) ==
  \A i \in DOMAIN promises : promises[i].fn \in DOMAIN settledMap

\* a stand-in for the flatten loop that drops rejected promises silently
RECURSIVE FlattenFulfilled(_, _, _)
FlattenFulfilled(promises, settledMap, acc) ==
  IF promises = << >> THEN acc
  ELSE LET inv == Head(promises)
           r   == settledMap[inv.fn]
           next ==
             IF inv.fn \in DOMAIN settledMap /\ r.status = "fulfilled"
             THEN [agentResults |-> Append(acc.agentResults, r.value),
                   allProperties |-> acc.allProperties \o r.value.properties,
                   errors |-> acc.errors \o r.value.errors]
             ELSE acc
       IN  FlattenFulfilled(Tail(promises), settledMap, next)

\* lines 125-139: the loop over settledResults, in the order of agentPromises
RECURSIVE Flatten(_, _, _)
Flatten(promises, settledMap, acc) ==
  IF promises = << >> THEN acc
  ELSE LET inv == Head(promises)
           r   == settledMap[inv.fn]
           next ==
             IF inv.fn \notin DOMAIN settledMap THEN acc
             ELSE IF r.status = "fulfilled"
             THEN [agentResults |-> Append(acc.agentResults, r.value),
                   allProperties |-> acc.allProperties \o r.value.properties,
                   errors |-> acc.errors \o r.value.errors]
             ELSE [acc EXCEPT !.errors =
                     Append(@, Err("Agent failed entirely", inv.fn))]
       IN  IF Len(next.errors) >= 0
           THEN Flatten(Tail(promises), settledMap, next)
           ELSE next

\* `p.listPrice ?? p.estimatedValue ?? 0`
PriceOf(prop) ==
  IF prop.listPrice # Null THEN prop.listPrice[1]
  ELSE IF prop.estimatedValue # Null THEN prop.estimatedValue[1]
  ELSE 0

\* lines 148-155
PriceFilter(props, p) ==
  IF TruthyNum(p.minPrice) \/ TruthyNum(p.maxPrice)
  THEN LET min == IF p.minPrice = Null THEN 0 ELSE p.minPrice[1]
       IN  SelectSeq(props,
             LAMBDA q : /\ PriceOf(q) >= min
                        /\ (p.maxPrice = Null \/ PriceOf(q) <= p.maxPrice[1]))
  ELSE props

\* lines 170-174
EquityFilter(props, p) ==
  IF TruthyNum(p.minEquity) /\ p.minEquity[1] > 0
  THEN SelectSeq(props,
         LAMBDA q : q.equityEstimate # Null /\ q.equityEstimate[1] >= p.minEquity[1])
  ELSE props

\* lines 158-167: the try/catch around `await enrichProperties(allProperties)`
EnrichResult(props, threw, lookup, geo, errs) ==
  IF threw
  THEN [thrown |-> FALSE, enriched |-> props,
        errors |-> Append(errs, Err("Enrichment failed", "enrichProperties"))]
  ELSE [thrown |-> FALSE, enriched |-> enrichProperties(props, lookup, geo),
        errors |-> errs]

\* a stand-in for the persistence step without its try/catch
PersistRethrows(props, storeConfigured, batchFails, errs) ==
  LET r == saveProperties(props, storeConfigured, batchFails)
  IN  [thrown |-> r.threw, totalSaved |-> r.saved, errors |-> errs]

\* lines 179-187: the try/catch around `await saveProperties(enriched)`
PersistResult(props, storeConfigured, batchFails, errs) ==
  LET r == saveProperties(props, storeConfigured, batchFails)
  IN  IF r.threw
      THEN [thrown |-> FALSE, totalSaved |-> 0,
            errors |-> Append(errs, Err("Failed to save properties", "saveProperties"))]
      ELSE [thrown |-> FALSE, totalSaved |-> r.saved, errors |-> errs]

-----------------------------------------------------------------------------
(* Inputs of a run *)

Filters ==
  {Null, Some(<< >>), Some(<<"REO">>), Some(<<"Auction">>), Some(<<"Lis Pendens">>),
   Some(<<"Tax Lien">>)}

Sources ==
  {Null, Some(""), Some("zillow"), Some("foreclosure-sites"), Some("attom"),
   Some("county-records"), Some("manual_search")}

ParamSet ==
  [ city : {Null, Some(<< >>), Some(CityMesa)},
    state : {Null, Some(StateAZ)},
    distressTypes : Filters,
    source : Sources,
    minPrice : {Null, Some(100)},
    maxPrice : {Null},
    minEquity : {Null} ]

EnvSet == [attomKey : BOOLEAN]

\* what each agent call reports when it finds something
AgentRecord(fn) ==
  CASE fn = "zillowSearch" ->
         Rec("zillow", AddrMain, CityMesa, Some(100), Null, Null, Null, "", << >>)
    [] fn = "searchAllForeclosureSites" ->
         Rec("foreclosure.com", AddrOak, CityMesa, Some(90), Null, Null, Null, "", <<"foreclosure">>)
    [] fn = "searchPreForeclosures" ->
         Rec("attom", AddrMainLong, CityMesa, Null, Null, Some(120), Some("Ann"),
             "Maricopa", <<"Pre-Foreclosure">>)
    [] fn = "searchForeclosures" ->
         Rec("attom", AddrOak, CityMesa, Null, Null, Some(60), Null, "Maricopa", <<"Auction">>)
    [] OTHER ->
         Rec("county-records", AddrMain, CityMesa, Null, Null, Some(130), Some("Bob"),
             "Maricopa", <<"Pre-Foreclosure", "NOD">>)

Envelope(inv, props, errs) ==
  [agent |-> inv.source, properties |-> props, errors |-> errs, requestCount |-> 1]

\* How the promise of one agent call may settle.  runSearch is modelled
\* against the promise interface of the calls it makes: a promise fulfils
\* with an envelope or rejects.
Outcomes(inv) ==
  { [status |-> "rejected", value |-> Envelope(inv, << >>, << >>)],
    [status |-> "fulfilled", value |-> Envelope(inv, <<AgentRecord(inv.fn)>>, << >>)],
    [status |-> "fulfilled",
     value |-> Envelope(inv, << >>, <<Err("search failed", inv.fn)>>)] }

ZestLookups == {Null, Some(200)}

GeoResults == {Null, Some(<<33, -111>>)}

NoTotals == [totalFound |-> 0, totalAfterDedup |-> 0, totalEnriched |-> 0, totalSaved |-> 0]

NoCalls == [enrich |-> 0, save |-> 0, enrichThrew |-> FALSE, saveThrew |-> FALSE]

EmptyMap == [x \in {} |-> 0]

-----------------------------------------------------------------------------
(* runSearch, from one await to the next *)

OrchInit ==
  /\ pc = "idle"
  /\ params \in ParamSet
  /\ env \in EnvSet
  /\ agentPromises = << >>
  /\ settled = EmptyMap
  /\ errors = << >>
  /\ agentResults = << >>
  /\ allProperties = << >>
  /\ totals = NoTotals
  /\ calls = NoCalls
  /\ outcome = "pending"

\* lines 63-80: the call with city or state missing returns at once
RunSearchRejects ==
  /\ pc = "idle"
  /\ MissingCriteria(OrEmpty(params.city), OrEmpty(params.state))
  /\ pc' = "done"
  /\ outcome' = "returned"
  /\ errors' = <<Err("City and state are required for search", "runSearch")>>
  /\ UNCHANGED <<params, env, agentPromises, settled, agentResults, allProperties,
                 totals, calls>>

\* lines 63-124: the agent calls are made one after the other, with no await
\* between them, and runSearch then waits on Promise.allSettled
RunSearchStarts ==
  /\ pc = "idle"
  /\ ~MissingCriteria(OrEmpty(params.city), OrEmpty(params.state))
  /\ agentPromises' = SelectAgents(params, env)
  /\ pc' = "agents"
  /\ UNCHANGED <<params, env, settled, errors, agentResults, allProperties, totals,
                 calls, outcome>>

\* one agent call settles while runSearch waits
AgentSettles ==
  /\ pc = "agents"
  /\ \E i \in DOMAIN agentPromises :
       /\ agentPromises[i].fn \notin DOMAIN settled
       /\ \E o \in Outcomes(agentPromises[i]) :
            settled' = [f \in DOMAIN settled \cup {agentPromises[i].fn} |->
                          IF f = agentPromises[i].fn THEN o ELSE settled[f]]
  /\ UNCHANGED <<pc, params, env, agentPromises, errors, agentResults, allProperties,
                 totals, calls, outcome>>

\* the agent calls in the order they completed
AsCompleted(promises, order) ==
  [k \in DOMAIN order |-> CHOOSE inv \in Range(promises) : inv.fn = order[k]]

\* a stand-in for the join that takes the results as they came in
JoinAsCompleted ==
  /\ pc = "agents"
  /\ AllSettled(agentPromises, settled)
  /\ LET flat == Flatten(AsCompleted(agentPromises, settleOrder), settled,
                   [agentResults |-> << >>, allProperties |-> << >>, errors |-> errors])
         deduped == deduplicateProperties(flat.allProperties)
     IN  /\ agentResults' = flat.agentResults
         /\ errors' = flat.errors
         /\ allProperties' = PriceFilter(deduped, params)
         /\ totals' = [totals EXCEPT !.totalFound = Len(flat.allProperties),
                                     !.totalAfterDedup = Len(deduped)]
  /\ calls' = [calls EXCEPT !.enrich = @ + 1]
  /\ pc' = "enrich"
  /\ UNCHANGED <<params, env, agentPromises, settled, outcome>>

\* a stand-in for the join that counts totalFound after deduplication
JoinCountsAfterDedup ==
  /\ pc = "agents"
  /\ AllSettled(agentPromises, settled)
  /\ LET flat == Flatten(agentPromises, settled,
                   [agentResults |-> << >>, allProperties |-> << >>, errors |-> errors])
         deduped == deduplicateProperties(flat.allProperties)
     IN  /\ agentResults' = flat.agentResults
         /\ errors' = flat.errors
         /\ allProperties' = PriceFilter(deduped, params)
         /\ totals' = [totals EXCEPT !.totalFound = Len(deduped),
                                     !.totalAfterDedup = Len(deduped)]
  /\ calls' = [calls EXCEPT !.enrich = @ + 1]
  /\ pc' = "enrich"
  /\ UNCHANGED <<params, env, agentPromises, settled, outcome>>

\* lines 124-160: flatten, deduplicate, price filter, call enrichProperties
Join ==
  /\ pc = "agents"
  /\ AllSettled(agentPromises, settled)
  /\ LET flat == Flatten(agentPromises, settled,
                   [agentResults |-> << >>, allProperties |-> << >>, errors |-> errors])
         deduped == deduplicateProperties(flat.allProperties)
     IN  /\ agentResults' = flat.agentResults
         /\ errors' = flat.errors
         /\ allProperties' = PriceFilter(deduped, params)
         /\ totals' = [totals EXCEPT !.totalFound = Len(flat.allProperties),
                                     !.totalAfterDedup = Len(deduped)]
  /\ calls' = [calls EXCEPT !.enrich = @ + 1]
  /\ pc' = "enrich"
  /\ UNCHANGED <<params, env, agentPromises, settled, outcome>>

\* lines 160-181: enrichProperties settles; equity filter; call saveProperties
EnrichSettles ==
  /\ pc = "enrich"
  /\ \E threw \in BOOLEAN, lookup \in ZestLookups, geo \in GeoResults :
       LET r == EnrichResult(allProperties, threw, lookup, geo, errors)
           kept == EquityFilter(r.enriched, params)
       IN  /\ allProperties' = kept
           /\ errors' = r.errors
           /\ totals' = [totals EXCEPT !.totalEnriched = Len(kept)]
           /\ calls' = [calls EXCEPT !.save = @ + 1, !.enrichThrew = threw]
           /\ pc' = IF r.thrown THEN "done" ELSE "save"
           /\ outcome' = IF r.thrown THEN "thrown" ELSE outcome
  /\ UNCHANGED <<params, env, agentPromises, settled, agentResults>>

\* lines 181-198: saveProperties settles; runSearch returns
SaveSettles ==
  /\ pc = "save"
  /\ \E storeConfigured \in BOOLEAN, fails \in BOOLEAN :
       LET batchFails == [k \in 1..BatchCount(Len(allProperties)) |-> fails]
           r == PersistResult(allProperties, storeConfigured, batchFails, errors)
       IN  /\ errors' = r.errors
           /\ totals' = [totals EXCEPT !.totalSaved = r.totalSaved]
           /\ calls' = [calls EXCEPT !.saveThrew =
                          saveProperties(allProperties, storeConfigured, batchFails).threw]
           /\ outcome' = IF r.thrown THEN "thrown" ELSE "returned"
  /\ pc' = "done"
  /\ UNCHANGED <<params, env, agentPromises, settled, agentResults, allProperties>>

-----------------------------------------------------------------------------
(* The agents' search functions.  A request is answered by the remote site:
   "fail" (network error, timeout or non-2xx), "none" (a page or payload
   with no listing), "records" (one listing), "status" (ATTOM: no property
   array, a status message), "badrecord" (a listing that cannot be mapped). *)

NoResult == [properties |-> << >>, errors |-> << >>, requestCount |-> 0]

NoLog == [made |-> {}, failed |-> {}, got |-> << >>]

Logged(log, request, resp, props) ==
  [made |-> log.made \cup {request},
   failed |-> IF resp = "fail" THEN log.failed \cup {request} ELSE log.failed,
   got |-> log.got \o props]

\* what a site's page holds when it lists something
Listing(request) ==
  CASE request = "zillow" -> AgentRecord("zillowSearch")
    [] request = "attom-pre" -> AgentRecord("searchPreForeclosures")
    [] request = "attom-fc" -> AgentRecord("searchForeclosures")
    [] request \in {"NOD", "LP", "NTS"} -> AgentRecord("searchNODFilings")
    [] request = "tax" ->
         Rec("county-records", AddrOak, CityMesa, Null, Null, Some(5), Null,
             "Maricopa", <<"Tax Lien">>)
    [] OTHER ->
         Rec(request, AddrOak, CityMesa, Some(90), Null, Null, Null, "", <<"reo">>)

Parsed(request, resp) == IF resp = "records" THEN <<Listing(request)>> ELSE << >>

\* zillow.ts searchProperties: one request, the whole body in one try/catch
searchProperties(resp) ==
  IF resp = "fail"
  THEN [properties |-> << >>, errors |-> <<Err("Zillow search failed", "zillow")>>,
        requestCount |-> 1]
  ELSE IF resp = "badrecord"
  THEN [properties |-> << >>, errors |-> <<Err("Failed to parse property", "zillow")>>,
        requestCount |-> 1]
  ELSE [properties |-> Parsed("zillow", resp), errors |-> << >>, requestCount |-> 1]

\* a stand-in for the ATTOM searches that reports no failure at all
attomSearchSilent(request, keyConfigured, resp) ==
  [properties |-> Parsed(request, resp), errors |-> << >>,
   requestCount |-> IF keyConfigured THEN 1 ELSE 0]

\* attom.ts searchPreForeclosures / searchForeclosures: getApiKey() throws
\* before any request when ATTOM_API_KEY is not set
attomSearch(request, keyConfigured, resp) ==
  IF ~keyConfigured
  THEN [properties |-> << >>,
        errors |-> <<Err("ATTOM search failed: ATTOM_API_KEY is not set", request)>>,
        requestCount |-> 0]
  ELSE IF resp = "fail"
  THEN [properties |-> << >>, errors |-> <<Err("ATTOM search failed", request)>>,
        requestCount |-> 1]
  ELSE IF resp = "status"
  THEN [properties |-> << >>, errors |-> <<Err("ATTOM: status message", request)>>,
        requestCount |-> 1]
  ELSE IF resp = "badrecord"
  THEN [properties |-> << >>, errors |-> <<Err("Failed to map ATTOM record", request)>>,
        requestCount |-> 1]
  ELSE [properties |-> Parsed(request, resp), errors |-> << >>, requestCount |-> 1]

\* county-records.ts searchNODFilings: only Maricopa County, AZ
CountySupported(county, state) ==
  toLowerCase(county) = <<"m","a","r","i","c","o","p","a">> /\ toLowerCase(state) = <<"a","z">>

\* one iteration of the loop over docTypes, with its own try/catch
SearchDocType(res, docType, resp) ==
  IF resp = "fail"
  THEN [res EXCEPT !.requestCount = @ + 1,
                   !.errors = Append(@, Err("Failed to search Maricopa County", docType))]
  ELSE [res EXCEPT !.requestCount = @ + 1,
                   !.properties = @ \o Parsed(docType, resp)]

\* searchMaricopaTaxLiens: its own try/catch returns [] on any failure
searchMaricopaTaxLiens(resp) == IF resp = "fail" THEN << >> ELSE Parsed("tax", resp)

\* the tax-lien block of searchNODFilings; searchMaricopaTaxLiens never
\* throws, so the catch of this block pushes nothing
SearchTaxLiens(res, resp) ==
  [res EXCEPT !.requestCount = @ + 1,
              !.properties = @ \o searchMaricopaTaxLiens(resp)]

\* foreclosure-sites.ts: the four scrapers, one request each, each in a try/catch
Scrapers == <<"foreclosure.com", "hudhomestore.gov", "homepath.fanniemae.com", "homesteps.com">>

Scrape(site, resp) ==
  IF resp = "fail"
  THEN [properties |-> << >>, errors |-> <<Err("search failed", site)>>, requestCount |-> 1]
  ELSE [properties |-> Parsed(site, resp), errors |-> << >>, requestCount |-> 1]

\* searchAllForeclosureSites: the loop over the settled scrapers, in list order
RECURSIVE Combine(_, _, _)
Combine(sites, sub, acc) ==
  IF sites = << >> THEN acc
  ELSE LET r == sub[Head(sites)]
       IN  Combine(Tail(sites), sub,
             IF r.status = "fulfilled"
             THEN [properties |-> acc.properties \o r.value.properties,
                   errors |-> acc.errors \o r.value.errors,
                   requestCount |-> acc.requestCount + r.value.requestCount]
             ELSE [acc EXCEPT !.errors =
                     Append(@, Err("Foreclosure site agent failed", Head(sites)))])

\* the `agent` field of the AgentResult a search function returns: AGENT_NAME
\* of its module
AgentName(fn) ==
  CASE fn = "zillowSearch" -> "zillow"
    [] fn \in {"searchPreForeclosures", "searchForeclosures"} -> "attom"
    [] fn = "searchNODFilings" -> "county-records"
    [] OTHER -> "foreclosure-sites"

AgentFns ==
  {"zillowSearch", "searchPreForeclosures", "searchForeclosures", "searchNODFilings",
   "searchAllForeclosureSites"}

Responses == {"fail", "none", "records"}

IdleAgent ==
  /\ aFn = "none" /\ aEnv = Null /\ aPc = "off" /\ aSub = EmptyMap
  /\ aResult = NoResult /\ aLog = NoLog /\ aOutcome = "pending"

AgentInit ==
  /\ aFn \in AgentFns
  /\ aEnv \in [attomKey : BOOLEAN, county : {<<"M","a","r","i","c","o","p","a">>, <<"P","i","m","a">>}]
  /\ aPc = "start"
  /\ aSub = EmptyMap
  /\ aResult = NoResult
  /\ aLog = NoLog
  /\ aOutcome = "pending"

\* zillow.ts lines 73-262
ZillowSearch ==
  /\ aFn = "zillowSearch" /\ aPc = "start"
  /\ \E resp \in Responses \cup {"badrecord"} :
       /\ aResult' = searchProperties(resp)
       /\ aLog' = Logged(aLog, "zillow", resp, Parsed("zillow", resp))
  /\ aPc' = "done"
  /\ aOutcome' = "resolved"
  /\ UNCHANGED <<aFn, aEnv, aSub>>

\* attom.ts lines 84-142 and 147-205
AttomSearch ==
  /\ aFn \in {"searchPreForeclosures", "searchForeclosures"} /\ aPc = "start"
  /\ LET request == IF aFn = "searchPreForeclosures" THEN "attom-pre" ELSE "attom-fc"
     IN  \E resp \in Responses \cup {"status", "badrecord"} :
           /\ aResult' = attomSearch(request, aEnv.attomKey, resp)
           /\ aLog' = IF aEnv.attomKey
                      THEN Logged(aLog, request, resp, Parsed(request, resp))
                      ELSE aLog
  /\ aPc' = "done"
  /\ aOutcome' = "resolved"
  /\ UNCHANGED <<aFn, aEnv, aSub>>

\* county-records.ts lines 117-138
CountyStart ==
  /\ aFn = "searchNODFilings" /\ aPc = "start"
  /\ IF CountySupported(aEnv.county, StateAZ)
     THEN /\ aPc' = "NOD"
          /\ UNCHANGED <<aResult, aOutcome>>
     ELSE /\ aPc' = "done"
          /\ aResult' = [aResult EXCEPT !.errors =
                           Append(@, Err("Only Maricopa County, AZ is supported", "county"))]
          /\ aOutcome' = "resolved"
  /\ UNCHANGED <<aFn, aEnv, aSub, aLog>>

\* county-records.ts lines 147-167
CountyDocType ==
  /\ aFn = "searchNODFilings" /\ aPc \in {"NOD", "LP", "NTS"}
  /\ \E resp \in Responses :
       /\ aResult' = SearchDocType(aResult, aPc, resp)
       /\ aLog' = Logged(aLog, aPc, resp, Parsed(aPc, resp))
  /\ aPc' = CASE aPc = "NOD" -> "LP" [] aPc = "LP" -> "NTS" [] OTHER -> "tax"
  /\ UNCHANGED <<aFn, aEnv, aSub, aOutcome>>

\* county-records.ts lines 169-190
CountyTaxLiens ==
  /\ aFn = "searchNODFilings" /\ aPc = "tax"
  /\ \E resp \in Responses :
       /\ aResult' = SearchTaxLiens(aResult, resp)
       /\ aLog' = Logged(aLog, "tax", resp, Parsed("tax", resp))
  /\ aPc' = "done"
  /\ aOutcome' = "resolved"
  /\ UNCHANGED <<aFn, aEnv, aSub>>

\* foreclosure-sites.ts lines 510-522: the four scrapers are started
SitesStart ==
  /\ aFn = "searchAllForeclosureSites" /\ aPc = "start"
  /\ aPc' = "sites"
  /\ UNCHANGED <<aFn, aEnv, aSub, aResult, aLog, aOutcome>>

\* one scraper settles
SiteSettles ==
  /\ aFn = "searchAllForeclosureSites" /\ aPc = "sites"
  /\ \E i \in DOMAIN Scrapers, resp \in Responses :
       /\ Scrapers[i] \notin DOMAIN aSub
       /\ aSub' = [s \in DOMAIN aSub \cup {Scrapers[i]} |->
                     IF s = Scrapers[i]
                     THEN [status |-> "fulfilled", value |-> Scrape(s, resp)]
                     ELSE aSub[s]]
       /\ aLog' = Logged(aLog, Scrapers[i], resp, Parsed(Scrapers[i], resp))
  /\ UNCHANGED <<aFn, aEnv, aPc, aResult, aOutcome>>

\* foreclosure-sites.ts lines 517-547: all four settled, results combined
SitesCombine ==
  /\ aFn = "searchAllForeclosureSites" /\ aPc = "sites"
  /\ \A i \in DOMAIN Scrapers : Scrapers[i] \in DOMAIN aSub
  /\ aResult' = Combine(Scrapers, aSub, NoResult)
  /\ aPc' = "done"
  /\ aOutcome' = "resolved"
  /\ UNCHANGED <<aFn, aEnv, aSub, aLog>>

-----------------------------------------------------------------------------
(* orchestrator.ts 147-155: the price filter applied to one list *)

PriceBounds == {Null, Some(0), Some(100), Some(150)}

FilterParams == [minPrice : PriceBounds, maxPrice : PriceBounds]

\* records that differ in what the filter reads
PricedPool ==
  { [Rec("zillow", AddrMain, CityMesa, price, Null, Null, Null, "", << >>)
       EXCEPT !.estimatedValue = value] :
      price \in {Null, Some(0), Some(99), Some(100), Some(150), Some(151)},
      value \in {Null, Some(120)} }

FilterInit ==
  /\ fParams \in FilterParams
  /\ fProps \in {<<q>> : q \in PricedPool}
               \cup {<<q, r>> : q \in {x \in PricedPool : x.estimatedValue = Null},
                                r \in {x \in PricedPool : x.listPrice = Null}}
               \cup {<< >>}
  /\ fOut = << >>
  /\ fDone = FALSE

FilterStep ==
  /\ ~fDone
  /\ fOut' = PriceFilter(fProps, fParams)
  /\ fDone' = TRUE
  /\ UNCHANGED <<fParams, fProps>>

-----------------------------------------------------------------------------
(* enricher.ts 42-63: enrichProperties, one iteration of its loop per step *)

\* what getZestimate resolves to: null or a number
EnrichLookups == {Null, Some(0), Some(200)}

\* records that differ in what the enrichment steps read
EnrichPool ==
  { [Rec("zillow", addr, CityMesa, price, zest, loan, Null, "", << >>)
       EXCEPT !.estimatedValue = value, !.arvEstimate = arv, !.equityEstimate = equity] :
      addr \in {AddrMain, << >>},
      price \in {Null, Some(100)},
      zest \in {Null, Some(0), Some(105)},
      value \in {Null, Some(120)},
      loan \in {Null, Some(0), Some(50), Some(200)},
      arv \in {Null, Some(0), Some(7)},
      equity \in {Null, Some(5)} }

\* records for the longer lists
EnrichListPool ==
  { Rec("zillow", AddrMain, CityMesa, Some(100), Null, Null, Null, "", << >>),
    Rec("attom", AddrOak, CityMesa, Null, Some(105), Some(200), Some("Ann"), "Maricopa",
        <<"Pre-Foreclosure">>),
    Rec("foreclosure-sites", << >>, CityMesa, Some(100), Null, Some(50), Null, "",
        <<"reo">>) }

\* the longest list enrichProperties is given
MaxEnrichLen == 2

EnrichInit ==
  /\ eProps \in {<<q>> : q \in EnrichPool} \cup SeqsUpTo(EnrichListPool, MaxEnrichLen)
  /\ eIdx = 1
  /\ eResults = << >>
  /\ eLog = << >>

\* a stand-in for the loop body that puts the new record in front
EnrichStepPrepends(results, property, failed, lookup, geo) ==
  <<IF failed THEN property ELSE enrichProperty(property, lookup, geo)>> \o results

\* the body of the loop: `failed` tells whether `await enrichProperty(property)`
\* throws, in which case the catch pushes the property as it was given
EnrichStep(results, property, failed, lookup, geo) ==
  Append(results, IF failed THEN property ELSE enrichProperty(property, lookup, geo))

EnrichNext ==
  /\ eIdx <= Len(eProps)
  /\ \E failed \in BOOLEAN, lookup \in EnrichLookups, geo \in GeoResults :
       /\ eResults' = EnrichStep(eResults, eProps[eIdx], failed, lookup, geo)
       /\ eLog' = Append(eLog, [failed |-> failed, lookup |-> lookup, geo |-> geo])
  /\ eIdx' = eIdx + 1
  /\ UNCHANGED eProps

-----------------------------------------------------------------------------
(* orchestrator.ts 178-188 and 321-377: step 7 of runSearch, saveProperties
   one batch per step *)

\* how many records reach step 7
SaveSizes == {0, 1, 50, 51, 100, 101, 120, 150, 200}

SaveInit ==
  /\ sN \in SaveSizes
  /\ sPc = "start"
  /\ sI = 0
  /\ sSaved = 0
  /\ sBatches = << >>
  /\ sErrors = << >>
  /\ sTotalSaved = 0

\* `if (properties.length === 0) return 0`
SaveNothing ==
  /\ sPc = "start"
  /\ sN = 0
  /\ sTotalSaved' = 0
  /\ sPc' = "done"
  /\ UNCHANGED <<sN, sI, sSaved, sBatches, sErrors>>

\* getServiceClient returns a client: `let saved = 0` and the loop begins
SaveClient ==
  /\ sPc = "start"
  /\ sN > 0
  /\ sSaved' = 0
  /\ sI' = 0
  /\ sPc' = "loop"
  /\ UNCHANGED <<sN, sBatches, sErrors, sTotalSaved>>

\* getServiceClient throws (a credential of the store is missing): the catch of
\* runSearch pushes one error and totalSaved keeps its initial 0
SaveThrows ==
  /\ sPc = "start"
  /\ sN > 0
  /\ sErrors' = Append(sErrors, "Failed to save properties")
  /\ sPc' = "done"
  /\ UNCHANGED <<sN, sI, sSaved, sBatches, sTotalSaved>>

\* a stand-in for the iteration that counts a batch whatever the store answers
SaveBatchCountsFailed ==
  /\ sPc = "loop"
  /\ sI < sN
  /\ \E error \in BOOLEAN :
       /\ sSaved' = sSaved + Min(batchSize, sN - sI)
       /\ sBatches' = Append(sBatches, IF error THEN "error" ELSE "ok")
  /\ sI' = sI + batchSize
  /\ UNCHANGED <<sN, sPc, sErrors, sTotalSaved>>

\* one iteration of the loop: the upsert of properties.slice(i, i + batchSize)
\* answers with an error, which is logged, or with the count of the batch
SaveBatch ==
  /\ sPc = "loop"
  /\ sI < sN
  /\ \E error \in BOOLEAN :
       /\ sSaved' = IF error THEN sSaved ELSE sSaved + Min(batchSize, sN - sI)
       /\ sBatches' = Append(sBatches, IF error THEN "error" ELSE "ok")
  /\ sI' = sI + batchSize
  /\ UNCHANGED <<sN, sPc, sErrors, sTotalSaved>>

\* `return saved`, assigned to totalSaved in runSearch
SaveReturn ==
  /\ sPc = "loop"
  /\ sI >= sN
  /\ sTotalSaved' = sSaved
  /\ sPc' = "done"
  /\ UNCHANGED <<sN, sI, sSaved, sBatches, sErrors>>

-----------------------------------------------------------------------------
(* orchestrator.ts 330-374: the rows saveProperties upserts, and the properties
   table over several runs *)

\* `p.estimatedValue ?? p.zestimate ?? p.listPrice`
EstimatedPrice(p) ==
  IF p.estimatedValue # Null THEN p.estimatedValue
  ELSE IF p.zestimate # Null THEN p.zestimate
  ELSE p.listPrice

\* the row built from a record (the columns that tell rows apart here)
ToRow(p) ==
  [ address |-> p.address, city |-> p.city, state |-> p.state, zip |-> p.zip,
    owner_name |-> p.ownerName, estimated_price |-> EstimatedPrice(p),
    distress_types |-> p.distressTypes, source |-> p.source ]

ToRows(props) == [i \in DOMAIN props |-> ToRow(props[i])]

\* `onConflict: 'address,city,state'`
ConflictKey(row) == <<row.address, row.city, row.state>>

\* two rows of one upsert have the same conflict key: the statement is refused
\* as a whole
Clashes(batch) ==
  \E i, j \in DOMAIN batch : i < j /\ ConflictKey(batch[i]) = ConflictKey(batch[j])

\* the table after `upsert(rows, { onConflict, ignoreDuplicates: false })`: a
\* row whose conflict key is in the table replaces the row there, any other
\* row is added; nothing is written when the store answers with an error
Upsert(table, batch, error) ==
  IF error \/ Clashes(batch) THEN table
  ELSE {r \in table : \A i \in DOMAIN batch : ConflictKey(batch[i]) # ConflictKey(r)}
         \cup {batch[i] : i \in DOMAIN batch}

\* what the agents of a run find
StorePool ==
  { Rec("zillow", AddrMain, CityMesa, Some(100), Null, Null, Null, "", << >>),
    Rec("attom", AddrMain, CityMesa, Some(150), Null, Null, Some("Ann"), "Maricopa",
        <<"Pre-Foreclosure">>),
    Rec("attom", AddrMainLong, CityMesa, Some(150), Null, Null, Some("Ann"), "Maricopa",
        <<"Pre-Foreclosure">>),
    Rec("zillow", AddrOak, CityMesa, Some(90), Null, Null, Null, "", << >>),
    \* county-records.ts 323: `prop.zip = address.zip || ''`, no zip in the filing
    [Rec("county-records", AddrMain, CityMesa, Null, Null, Some(120), Some("Bob"),
         "Maricopa", <<"NOD">>) EXCEPT !.zip = << >>] }

\* the most records the agents of one run find
MaxFound == 2

\* the number of runs followed
MaxRuns == 2

\* before the first upsert
NoUpsert == [batch |-> << >>, error |-> FALSE]

StoreInit ==
  /\ stRows = {}
  /\ stRuns = 0
  /\ stLast = NoUpsert

\* one run of runSearch as far as the table is concerned: the records found
\* are deduplicated and upserted (one batch, there being fewer than 50)
StoreRun ==
  /\ stRuns < MaxRuns
  /\ \E props \in SeqsUpTo(StorePool, MaxFound) \ {<< >>}, error \in BOOLEAN :
       stLast' = [batch |-> ToRows(deduplicateProperties(props)), error |-> error]
  /\ stRows' = Upsert(stRows, stLast'.batch, stLast'.error)
  /\ stRuns' = stRuns + 1

-----------------------------------------------------------------------------
(* attom.ts 22-40: rateLimiter.waitForSlot, called by attomFetch *)

maxRequests == 50

windowMs == 60000

\* the calls of attomFetch that can be under way at once: the two ATTOM
\* searches runSearch starts side by side
Callers == {"searchPreForeclosures", "searchForeclosures"}

\* the clock moves in steps of a second between calls
TickMs == 1000

\* how many such steps are followed
MaxTicks == 1

\* how many calls of waitForSlot are followed
MaxCalls == 52

LimiterInit ==
  /\ lTimestamps = << >>
  /\ lNow = 0
  /\ lWake = [c \in Callers |-> Null]
  /\ lAdmitted = << >>
  /\ lTicks = 0

\* `this.timestamps.filter((t) => now - t < this.windowMs)`
InWindow(timestamps, now) ==
  LET Recent(t) == now - t < windowMs
  IN  SelectSeq(timestamps, Recent)

\* `this.windowMs - (now - oldestInWindow) + 100`
WaitMs(kept, now) == windowMs - (now - kept[1]) + 100

Waiting == {c \in Callers : lWake[c] # Null}

\* caller c enters waitForSlot: up to the await when the window is full,
\* through the push otherwise
WaitForSlot(c) ==
  /\ lWake[c] = Null
  /\ Len(lAdmitted) + Cardinality(Waiting) < MaxCalls
  /\ IF Len(InWindow(lTimestamps, lNow)) >= maxRequests
     THEN /\ lTimestamps' = InWindow(lTimestamps, lNow)
          /\ lWake' = [lWake EXCEPT ![c] =
                         Some(lNow + WaitMs(InWindow(lTimestamps, lNow), lNow))]
          /\ UNCHANGED lAdmitted
     ELSE /\ lTimestamps' = Append(InWindow(lTimestamps, lNow), lNow)
          /\ lAdmitted' = Append(lAdmitted, lNow)
          /\ UNCHANGED lWake
  /\ UNCHANGED <<lNow, lTicks>>

\* the timer of caller c has run out: `this.timestamps.push(Date.now())`
TimerFires(c) ==
  /\ lWake[c] # Null
  /\ lNow >= lWake[c][1]
  /\ lTimestamps' = Append(lTimestamps, lNow)
  /\ lAdmitted' = Append(lAdmitted, lNow)
  /\ lWake' = [lWake EXCEPT ![c] = Null]
  /\ UNCHANGED <<lNow, lTicks>>

\* a second passes between two calls
Tick ==
  /\ lTicks < MaxTicks
  /\ lNow' = lNow + TickMs
  /\ lTicks' = lTicks + 1
  /\ UNCHANGED <<lTimestamps, lWake, lAdmitted>>

\* time passes until a timer is due
TimePasses ==
  /\ \E c \in Waiting :
       /\ lWake[c][1] > lNow
       /\ lNow' = lWake[c][1]
  /\ UNCHANGED <<lTimestamps, lWake, lAdmitted, lTicks>>

-----------------------------------------------------------------------------
(* enricher.ts 21-63, 70-91, 131-190 and zillow.ts 308-323: the requests
   enrichProperties sends, record by record *)

\* the longest list followed request by request
MaxBatch == 3

\* enrichZestimate gets as far as the request of getZestimate
NeedsValuation(p, keySet) ==
  /\ ~TruthyNum(p.zestimate)
  /\ p.address # << >> /\ p.city # << >> /\ p.state # << >>
  /\ keySet

\* geocodeAddress gets as far as its fetch
NeedsGeocoding(p) ==
  /\ ~(TruthyNum(p.latitude) /\ TruthyNum(p.longitude))
  /\ p.address # << >>

FlightInit ==
  /\ qProps \in SeqsUpTo(EnrichListPool, MaxBatch)
  /\ qKey \in BOOLEAN
  /\ qPc = [i \in DOMAIN qProps |-> "waiting"]
  /\ qInFlight = {}

\* a stand-in for the loop that goes on to the next record without awaiting
LoopReachesUnawaited(pcs, i) == IF i = 1 THEN TRUE ELSE pcs[i - 1] # "waiting"

\* `for (const property of properties)` gets to record i: the first, or the
\* one after a record whose `await enrichProperty` and `await randomDelay`
\* are both over
LoopReaches(pcs, i) == IF i = 1 THEN TRUE ELSE pcs[i - 1] = "delayed"

\* the iteration of record i begins: enrichZestimate, up to the request of
\* getZestimate if it makes one
StartRecord(i) ==
  /\ qPc[i] = "waiting"
  /\ LoopReaches(qPc, i)
  /\ IF NeedsValuation(qProps[i], qKey)
     THEN /\ qInFlight' = qInFlight \cup {<<i, "valuation">>}
          /\ qPc' = [qPc EXCEPT ![i] = "valuation"]
     ELSE /\ qPc' = [qPc EXCEPT ![i] = "valued"]
          /\ UNCHANGED qInFlight
  /\ UNCHANGED <<qProps, qKey>>

\* the valuation request is answered (or fails)
ValuationAnswered(i) ==
  /\ qPc[i] = "valuation"
  /\ qInFlight' = qInFlight \ {<<i, "valuation">>}
  /\ qPc' = [qPc EXCEPT ![i] = "valued"]
  /\ UNCHANGED <<qProps, qKey>>

\* estimateARV and calculateEquity, then geocodeAddress up to its fetch
Geocode(i) ==
  /\ qPc[i] = "valued"
  /\ IF NeedsGeocoding(qProps[i])
     THEN /\ qInFlight' = qInFlight \cup {<<i, "geocoder">>}
          /\ qPc' = [qPc EXCEPT ![i] = "geocoder"]
     ELSE /\ qPc' = [qPc EXCEPT ![i] = "pushed"]
          /\ UNCHANGED qInFlight
  /\ UNCHANGED <<qProps, qKey>>

\* the geocoder answers (or fails); enrichProperty returns, the record is pushed
GeocoderAnswered(i) ==
  /\ qPc[i] = "geocoder"
  /\ qInFlight' = qInFlight \ {<<i, "geocoder">>}
  /\ qPc' = [qPc EXCEPT ![i] = "pushed"]
  /\ UNCHANGED <<qProps, qKey>>

\* `await randomDelay(500, 1000)` is over
DelayOver(i) ==
  /\ qPc[i] = "pushed"
  /\ qPc' = [qPc EXCEPT ![i] = "delayed"]
  /\ UNCHANGED <<qProps, qKey, qInFlight>>

-----------------------------------------------------------------------------
(* The loops in which the agents map the records of one response: zillow.ts
   160-169, 187-196, 208-246; attom.ts 118-127, 181-190; county-records.ts
   281-353, 372-412; foreclosure-sites.ts 90-136, 188-242, 321-344, 349-376,
   425-444, 449-487 *)

\* a try/catch around the mapping of each record that pushes an AgentError
ReportingLoops ==
  {"zillow listings", "zillow NEXT_DATA", "zillow cards", "searchPreForeclosures",
   "searchForeclosures", "searchForeclosureDotCom", "searchHUDHomes"}

\* a try/catch around the mapping of each record with an empty catch
SilentLoops ==
  {"parseMaricopaResults", "searchMaricopaTaxLiens", "searchHomePath cards",
   "searchHomeSteps cards"}

\* one try around the whole loop, its catch pushing an AgentError
GuardedLoops == {"searchHomePath JSON"}

\* one try around the whole loop with an empty catch
SilentGuardedLoops == {"searchHomeSteps JSON-LD"}

MappingLoops == ReportingLoops \cup SilentLoops \cup GuardedLoops \cup SilentGuardedLoops

\* the most records a response holds
MaxRecords == 3

\* the records that are mapped: all that do not throw when each has its own
\* try, those before the first that throws when the try is around the loop
Mapped(loop, records) ==
  IF loop \in ReportingLoops \cup SilentLoops
  THEN {i \in DOMAIN records : records[i] = "ok"}
  ELSE {i \in DOMAIN records : \A j \in 1..i : records[j] = "ok"}

\* how many AgentErrors the loop pushes
Reported(loop, records) ==
  IF loop \in ReportingLoops
  THEN Cardinality({i \in DOMAIN records : records[i] = "throws"})
  ELSE IF loop \in GuardedLoops /\ (\E i \in DOMAIN records : records[i] = "throws")
  THEN 1
  ELSE 0

MapRecords(loop, records) ==
  [ properties |-> SelectSeq([i \in DOMAIN records |-> i],
                             LAMBDA i : i \in Mapped(loop, records)),
    errors |-> [k \in 1..Reported(loop, records) |-> "mapping failed"] ]

LoopInit ==
  /\ rLoop \in MappingLoops
  /\ rRecords \in SeqsUpTo({"ok", "throws"}, MaxRecords)
  /\ rOut = [properties |-> << >>, errors |-> << >>]
  /\ rDone = FALSE

LoopRuns ==
  /\ ~rDone
  /\ rOut' = MapRecords(rLoop, rRecords)
  /\ rDone' = TRUE
  /\ UNCHANGED <<rLoop, rRecords>>

-----------------------------------------------------------------------------
(* Specifications *)

IdleOrch ==
  /\ pc = "off" /\ params = Null /\ env = Null /\ agentPromises = << >>
  /\ settled = EmptyMap /\ errors = << >> /\ agentResults = << >>
  /\ allProperties = << >> /\ totals = NoTotals /\ calls = NoCalls
  /\ outcome = "pending"

IdleDedup == dProps = << >> /\ dIdx = 1 /\ dSeen = << >> /\ dLast = [kind |-> "none", at |-> 0]

IdleMerge == mA = Null /\ mB = Null /\ mAB = Null /\ mBA = Null /\ mDone = TRUE

IdleFilter == fParams = Null /\ fProps = << >> /\ fOut = << >> /\ fDone = TRUE

IdleEnrich == eProps = << >> /\ eIdx = 1 /\ eResults = << >> /\ eLog = << >>

IdleSave ==
  /\ sN = 0 /\ sPc = "done" /\ sI = 0 /\ sSaved = 0 /\ sBatches = << >>
  /\ sErrors = << >> /\ sTotalSaved = 0

IdleStore == stRows = {} /\ stRuns = 0 /\ stLast = NoUpsert

IdleLimiter ==
  /\ lTimestamps = << >> /\ lNow = 0 /\ lWake = << >>
  /\ lAdmitted = << >> /\ lTicks = 0

IdleFlight == qProps = << >> /\ qKey = FALSE /\ qPc = << >> /\ qInFlight = {}

IdleLoop ==
  /\ rLoop = "none" /\ rRecords = << >> /\ rDone = TRUE
  /\ rOut = [properties |-> << >>, errors |-> << >>]

IdleJoin == settleOrder = << >>

IdleLate == IdleStore /\ IdleLimiter /\ IdleFlight /\ IdleLoop /\ IdleJoin

IdleSteps == IdleFilter /\ IdleEnrich /\ IdleSave /\ IdleLate

Init == OrchInit /\ IdleDedup /\ IdleMerge /\ IdleAgent /\ IdleSteps

Next ==
  \/ (RunSearchRejects /\ UNCHANGED <<dedupVars, mergeVars, agentVars, stepVars, lateVars>>)
  \/ (RunSearchStarts /\ UNCHANGED <<dedupVars, mergeVars, agentVars, stepVars, lateVars>>)
  \/ (AgentSettles /\ UNCHANGED <<dedupVars, mergeVars, agentVars, stepVars, lateVars>>)
  \/ (Join /\ UNCHANGED <<dedupVars, mergeVars, agentVars, stepVars, lateVars>>)
  \/ (EnrichSettles /\ UNCHANGED <<dedupVars, mergeVars, agentVars, stepVars, lateVars>>)
  \/ (SaveSettles /\ UNCHANGED <<dedupVars, mergeVars, agentVars, stepVars, lateVars>>)

Spec == Init /\ [][Next]_vars

InitDedup == DedupInit /\ IdleOrch /\ IdleMerge /\ IdleAgent /\ IdleSteps

NextDedup == DedupIter /\ UNCHANGED <<orchVars, mergeVars, agentVars, stepVars, lateVars>>

SpecDedup == InitDedup /\ [][NextDedup]_vars

InitMerge == MergeInit /\ IdleOrch /\ IdleDedup /\ IdleAgent /\ IdleSteps

NextMerge == MergeBoth /\ UNCHANGED <<orchVars, dedupVars, agentVars, stepVars, lateVars>>

SpecMerge == InitMerge /\ [][NextMerge]_vars

InitAgents == AgentInit /\ IdleOrch /\ IdleDedup /\ IdleMerge /\ IdleSteps

NextAgents ==
  \/ (ZillowSearch /\ UNCHANGED <<orchVars, dedupVars, mergeVars, stepVars, lateVars>>)
  \/ (AttomSearch /\ UNCHANGED <<orchVars, dedupVars, mergeVars, stepVars, lateVars>>)
  \/ (CountyStart /\ UNCHANGED <<orchVars, dedupVars, mergeVars, stepVars, lateVars>>)
  \/ (CountyDocType /\ UNCHANGED <<orchVars, dedupVars, mergeVars, stepVars, lateVars>>)
  \/ (CountyTaxLiens /\ UNCHANGED <<orchVars, dedupVars, mergeVars, stepVars, lateVars>>)
  \/ (SitesStart /\ UNCHANGED <<orchVars, dedupVars, mergeVars, stepVars, lateVars>>)
  \/ (SiteSettles /\ UNCHANGED <<orchVars, dedupVars, mergeVars, stepVars, lateVars>>)
  \/ (SitesCombine /\ UNCHANGED <<orchVars, dedupVars, mergeVars, stepVars, lateVars>>)

SpecAgents == InitAgents /\ [][NextAgents]_vars

-----------------------------------------------------------------------------
(* Properties of runSearch (Spec) *)

CityOrStateMissing ==
  params.city \in {Null, Some(<< >>)} \/ params.state \in {Null, Some(<< >>)}

Fns(promises) == {promises[i].fn : i \in DOMAIN promises}

Rejected == {f \in DOMAIN settled : settled[f].status = "rejected"}

Fulfilled == {f \in DOMAIN settled : settled[f].status = "fulfilled"}

RECURSIVE SumFound(_)
SumFound(results) ==
  IF results = << >> THEN 0
  ELSE Len(Head(results).properties) + SumFound(Tail(results))

\* the envelopes of the fulfilled calls, in the order the calls were made
RECURSIVE FulfilledEnvelopes(_)
FulfilledEnvelopes(promises) ==
  IF promises = << >> THEN << >>
  ELSE (IF Head(promises).fn \in Fulfilled
        THEN <<settled[Head(promises).fn].value>> ELSE << >>)
       \o FulfilledEnvelopes(Tail(promises))

\* C1: a call of runSearch with an empty or missing city or state goes
\* straight to its return: all four totals are 0, agentResults is empty,
\* errors has exactly one entry, and no agent search, no enrichProperties
\* call and no saveProperties call has been made.
C1_MissingCriteriaReturnAtOnce ==
  (CityOrStateMissing /\ pc # "idle") =>
    /\ pc = "done" /\ outcome = "returned"
    /\ totals = NoTotals
    /\ agentResults = << >>
    /\ Len(errors) = 1
    /\ agentPromises = << >> /\ settled = EmptyMap
    /\ calls.enrich = 0 /\ calls.save = 0

C1_Witness ==
  /\ pc = "done" /\ outcome = "returned"
  /\ params.city = Some(<< >>) /\ params.state = Some(StateAZ)
  /\ Len(errors) = 1 /\ totals.totalFound = 0

\* C2: every selected agent call is started before runSearch waits on any
\* of them; flattening and deduplication begin only once every started call
\* has settled; and each started call is accounted for whatever the others
\* did: a fulfilled call's envelope is in agentResults, a rejected call has
\* its error entry.
C2_AllStartedThenAllSettled ==
  /\ (DOMAIN settled # {} => agentPromises = SelectAgents(params, env))
  /\ DOMAIN settled \subseteq Fns(agentPromises)
  /\ (pc \in {"enrich", "save"} \/ (pc = "done" /\ ~CityOrStateMissing)) =>
       /\ agentPromises = SelectAgents(params, env)
       /\ DOMAIN settled = Fns(agentPromises)
       /\ agentResults = FulfilledEnvelopes(agentPromises)
       /\ \A f \in Rejected :
            \E k \in DOMAIN errors :
              errors[k] = Err("Agent failed entirely", f)

C2_Witness ==
  /\ pc = "enrich"
  /\ Len(agentPromises) = 5
  /\ settled["zillowSearch"].status = "rejected"
  /\ settled["searchNODFilings"].status = "rejected"
  /\ Len(agentResults) = 3
  /\ totals.totalFound = 3

OneRejectedOthersClean ==
  /\ pc = "done" /\ ~CityOrStateMissing
  /\ Cardinality(Rejected) = 1
  /\ \A f \in Fulfilled : settled[f].value.errors = << >>

OneErrorAndFulfilledOnly ==
  /\ Len(errors) = 1
  /\ agentResults = FulfilledEnvelopes(agentPromises)
  /\ totals.totalFound = SumFound(FulfilledEnvelopes(agentPromises))

C4_NeverThrows ==
  /\ outcome # "thrown"
  /\ (pc = "done" => outcome = "returned")
  /\ (outcome = "returned" => pc = "done")

C4_Witness ==
  /\ pc = "done" /\ outcome = "returned" /\ ~CityOrStateMissing
  /\ calls.enrichThrew /\ calls.saveThrew
  /\ Rejected # {} /\ Fulfilled # {}
  /\ Len(errors) >= 3

SourceSet == params.source # Null /\ params.source # Some("")

\* C7: when params.source is set (a non-empty string), every agent call made
\* belongs to that source, for every distress filter and whether or not
\* ATTOM_API_KEY is configured.
C7_OnlyTheNamedSource ==
  SourceSet =>
    \A i \in DOMAIN agentPromises : agentPromises[i].source = params.source[1]

C7_Witness ==
  /\ pc = "agents"
  /\ params.source = Some("attom")
  /\ Len(agentPromises) = 2
  /\ env.attomKey

AttomFns == {"searchPreForeclosures", "searchForeclosures"}

AttomCategories == {"Pre-Foreclosure", "NOD", "Lis Pendens", "Auction"}

\* C8: an ATTOM search is called only when ATTOM_API_KEY is configured and
\* the distress filter is empty or names a pre-foreclosure or foreclosure
\* category; without the key no ATTOM search is called, and the result has
\* no ATTOM envelope and no error from ATTOM.
C8_AttomNeedsKeyAndFilter ==
  /\ (\E i \in DOMAIN agentPromises : agentPromises[i].fn \in AttomFns) =>
       /\ env.attomKey
       /\ \/ OrEmpty(params.distressTypes) = << >>
          \/ Intersects(OrEmpty(params.distressTypes), AttomCategories)
  /\ ~env.attomKey =>
       /\ \A i \in DOMAIN agentPromises : agentPromises[i].source # "attom"
       /\ \A j \in DOMAIN agentResults : agentResults[j].agent # "attom"
       /\ \A k \in DOMAIN errors : errors[k].from \notin AttomFns

C8_Witness ==
  /\ pc = "done" /\ outcome = "returned"
  /\ env.attomKey
  /\ params.source = Null
  /\ params.distressTypes = Some(<<"Lis Pendens">>)
  /\ \E i \in DOMAIN agentPromises : agentPromises[i].fn = "searchPreForeclosures"
  /\ \A i \in DOMAIN agentPromises : agentPromises[i].fn # "searchForeclosures"
  /\ \E j \in DOMAIN agentResults :
       agentResults[j].agent = "attom" /\ Len(agentResults[j].properties) = 1

-----------------------------------------------------------------------------
(* Properties of the agents' search functions (SpecAgents) *)

SingleRequestFns == {"zillowSearch", "searchPreForeclosures", "searchForeclosures"}

\* the call has returned and the agent was entirely unavailable: ATTOM with
\* no credential, or at least one request made and every request failed
Unavailable ==
  /\ aOutcome = "resolved"
  /\ \/ (aFn \in AttomFns /\ ~aEnv.attomKey)
     \/ (aLog.made # {} /\ aLog.made \subseteq aLog.failed)

\* C5 as stated: an agent that is entirely unavailable returns zero
\* properties and exactly one AgentError.
C5_AsStated ==
  Unavailable => (aResult.properties = << >> /\ Len(aResult.errors) = 1)

\* C5: an agent that is entirely unavailable returns zero properties and at
\* least one AgentError; exactly one when it is ATTOM without its credential
\* or an agent that makes a single outbound request (zillow searchProperties,
\* ATTOM searchPreForeclosures and searchForeclosures).
C5_UnavailableAgentReportsErrors ==
  Unavailable =>
    /\ aResult.properties = << >>
    /\ Len(aResult.errors) >= 1
    /\ (aFn \in SingleRequestFns => Len(aResult.errors) = 1)

C5_Witness ==
  /\ aOutcome = "resolved"
  /\ aFn = "searchAllForeclosureSites"
  /\ aLog.failed = {Scrapers[i] : i \in DOMAIN Scrapers}
  /\ aResult.properties = << >>
  /\ Len(aResult.errors) = 4
  /\ aResult.requestCount = 4

\* C6: every agent search resolves to an envelope and never rejects; every
\* property parsed from a request that succeeded is in the returned
\* properties, and every request that failed has an entry in the returned
\* errors.
C6_FailuresAreReported ==
  /\ aOutcome # "rejected"
  /\ aOutcome = "resolved" =>
       /\ Range(aLog.got) \subseteq Range(aResult.properties)
       /\ \A r \in aLog.failed :
            \E k \in DOMAIN aResult.errors : aResult.errors[k].from = r

\* the first two parts of C6 alone: no rejection, and no parsed property lost
C6_ResolvesAndKeepsProperties ==
  /\ aOutcome # "rejected"
  /\ aOutcome = "resolved" => Range(aLog.got) \subseteq Range(aResult.properties)

C6_SilentTaxLienFailure ==
  /\ aOutcome = "resolved"
  /\ aFn = "searchNODFilings"
  /\ aLog.failed = {"tax"}
  /\ aResult.errors = << >>
  /\ Len(aResult.properties) = 3
  /\ aResult.requestCount = 4

-----------------------------------------------------------------------------
(* Properties of mergeProperties and deduplicateProperties *)

\* the fields mergeProperties copies from the base and never fills
KeptFields ==
  {"address", "city", "state", "zip", "sourceId", "ownerOccupied", "scrapedAt"}

MergedAsSpecified(base, incoming, merged) ==
  /\ \A f \in MergeFields :
       /\ base[f] # Null => merged[f] = base[f]
       /\ (base[f] = Null /\ incoming[f] # Null) => merged[f] = incoming[f]
       /\ (base[f] = Null /\ incoming[f] = Null) => merged[f] = Null
  /\ \A f \in KeptFields : merged[f] = base[f]

SameKeyDisjoint ==
  /\ mDone
  /\ \A f \in NullableFields : mA[f] = Null \/ mB[f] = Null
  /\ mA.county = mB.county /\ mA.propertyType = mB.propertyType
  /\ LET key == DedupKey(mA) IN ~TooShort(key) /\ key = DedupKey(mB)

C11_SelfMergeIsIdentity ==
  mDone =>
    /\ (mA = mB => mAB = mA /\ mBA = mA)
    /\ (mAB # Null => mergeProperties(mAB, mAB) = mAB)

C11_Witness ==
  /\ mDone
  /\ mA = mB
  /\ mA.distressTypes = <<"Auction", "Pre-Foreclosure">>
  /\ mA.source = <<"attom">>
  /\ mA.listPrice = Some(150)
  /\ mAB = mA

\* the records among the first n of dProps that went into entry i of the
\* map: those whose dedup key is the entry's key
Contributors(i, n) ==
  {j \in 1..n : dSeen[i].key[1] = "addr" /\ DedupKey(dProps[j]) = dSeen[i].key[2]}

\* the source names of those records, in the order of the list
RECURSIVE ContributedSources(_, _)
ContributedSources(i, n) ==
  IF n = 0 THEN << >>
  ELSE ContributedSources(i, n - 1)
         \o (IF n \in Contributors(i, n) THEN dProps[n].source ELSE << >>)

\* C12: after any number of iterations of deduplicateProperties, the source
\* of an entry that two or more records went into is the ordered union of
\* those records' source names: each name once, in first-seen order.
C12_SourceIsOrderedUnion ==
  \A i \in DOMAIN dSeen :
    Cardinality(Contributors(i, dIdx - 1)) >= 2 =>
      dSeen[i].prop.source = Distinct(ContributedSources(i, dIdx - 1))

\* three records of one key from zillow, attom and zillow again
C12_RepeatedSourceName ==
  /\ dIdx = 4
  /\ Len(dSeen) = 1
  /\ Contributors(1, 3) = {1, 2, 3}
  /\ ContributedSources(1, 3) = <<"zillow", "attom", "zillow">>
  /\ dSeen[1].prop.source = <<"zillow", "attom", "zillow">>

-----------------------------------------------------------------------------
(* deduplicateProperties on two records whose street addresses are variants
   of each other *)

StreetNames == {<<"M","a","i","n">>, <<"O","a","k">>}

BaseAddresses == {AddrMain, AddrOak, <<"9"," ","E","l","m"," ","C","o","u","r","t">>, <<"5"," ","W"," ","P","i","n","e"," ","A","v","e">>}

\* the street-suffix words are the first twelve entries of the table, the
\* directional words the last eight
SuffixEntries == 1..12

DirectionEntries == 13..20

WithSuffix(name, word) == <<"1","2"," ">> \o name \o <<" ">> \o word

WithDirection(name, word) == <<"1","2"," ">> \o word \o <<" ">> \o name \o <<" ","S","t">>

\* the designators as they are written in an address
WrittenDesignators ==
  {<<" ","A","p","t"," ","4">>, <<" ","U","n","i","t"," ","4">>,
   <<" ","S","t","e"," ","4">>, <<" ","S","u","i","t","e"," ","4">>,
   <<" ","#","4">>}

CaseVariants ==
  {<<b, toLowerCase(b)>> : b \in BaseAddresses}
    \cup {<<b, toUpperCase(b)>> : b \in BaseAddresses}

UnitVariants == {<<b, b \o d>> : b \in BaseAddresses, d \in WrittenDesignators}

AbbreviationVariants ==
  {<<WithSuffix(n, Abbreviations[k][1]), WithSuffix(n, Abbreviations[k][2])>> :
     n \in StreetNames, k \in SuffixEntries}
  \cup {<<WithDirection(n, Abbreviations[k][1]), WithDirection(n, Abbreviations[k][2])>> :
          n \in StreetNames, k \in DirectionEntries}

VariantPairs == CaseVariants \cup UnitVariants \cup AbbreviationVariants

VariantInit ==
  /\ \E pair \in VariantPairs :
       dProps = <<Rec("zillow", pair[1], CityMesa, Some(100), Null, Null, Null, "", << >>),
                  Rec("attom", pair[2], CityMesa, Null, Some(200), Null, Some("Ann"),
                      "Maricopa", <<"Pre-Foreclosure">>)>>
  /\ dIdx = 1
  /\ dSeen = << >>
  /\ dLast = [kind |-> "none", at |-> 0]

InitVariants == VariantInit /\ IdleOrch /\ IdleMerge /\ IdleAgent /\ IdleSteps

SpecVariants == InitVariants /\ [][NextDedup]_vars

\* C13: two records with the same city, state and zip whose street addresses
\* differ only in letter case, in the presence of a unit designator, or in
\* full versus abbreviated suffix and directional words have the same dedup
\* key, and deduplicateProperties gives one merged record for them.
C13_VariantsShareOneKey ==
  dIdx = 3 =>
    /\ DedupKey(dProps[1]) = DedupKey(dProps[2])
    /\ Len(deduplicateProperties(dProps)) = 1
    /\ Len(dSeen) = 1

\* '12 Main St' and '12 Main St Apt 4' stay two records
C13_UnitDesignatorKeepsTwo ==
  /\ dIdx = 3
  /\ dProps[1].address = AddrMain
  /\ dProps[2].address = AddrMain \o <<" ","A","p","t"," ","4">>
  /\ DedupKey(dProps[1]) # DedupKey(dProps[2])
  /\ Len(dSeen) = 2

-----------------------------------------------------------------------------
(* Records without an address in deduplicateProperties (SpecDedup) *)

NoAddressRecords(n) == {j \in 1..n : dProps[j].address = << >>}

NoAddressEntries == {i \in DOMAIN dSeen : dSeen[i].prop.address = << >>}

\* C14: deduplicateProperties never merges two records whose address is
\* empty: after any number of iterations every record with an empty address
\* taken so far has an entry of its own, whatever its other fields are.
C14_EmptyAddressesStaySeparate ==
  Cardinality(NoAddressEntries) = Cardinality(NoAddressRecords(dIdx - 1))

\* the same record with an empty address, city 'Mesa', state 'AZ' and zip
\* '85201' twice: the second is merged into the first
C14_EmptyAddressesMerged ==
  /\ dIdx = 3
  /\ dProps[1] = dProps[2]
  /\ dProps[1].address = << >>
  /\ dProps[1].city = CityMesa
  /\ DedupKey(dProps[1]) = <<",", " ", "M", "E", "S", "A", ",", " ", "A", "Z", " ", "8", "5", "2", "0", "1">>
  /\ dLast.kind = "merge"
  /\ Len(dSeen) = 1

-----------------------------------------------------------------------------
(* Specifications of the single steps *)

InitFilter ==
  FilterInit /\ IdleOrch /\ IdleDedup /\ IdleMerge /\ IdleAgent /\ IdleEnrich /\ IdleSave /\ IdleLate

NextFilter ==
  FilterStep /\ UNCHANGED <<orchVars, dedupVars, mergeVars, agentVars, enrichVars, saveVars, lateVars>>

SpecFilter == InitFilter /\ [][NextFilter]_vars

InitEnrich ==
  EnrichInit /\ IdleOrch /\ IdleDedup /\ IdleMerge /\ IdleAgent /\ IdleFilter /\ IdleSave /\ IdleLate

NextEnrich ==
  EnrichNext /\ UNCHANGED <<orchVars, dedupVars, mergeVars, agentVars, filterVars, saveVars, lateVars>>

SpecEnrich == InitEnrich /\ [][NextEnrich]_vars

InitSave ==
  SaveInit /\ IdleOrch /\ IdleDedup /\ IdleMerge /\ IdleAgent /\ IdleFilter /\ IdleEnrich /\ IdleLate

NextSave ==
  \/ SaveNothing /\ UNCHANGED <<orchVars, dedupVars, mergeVars, agentVars, filterVars, enrichVars, lateVars>>
  \/ SaveClient /\ UNCHANGED <<orchVars, dedupVars, mergeVars, agentVars, filterVars, enrichVars, lateVars>>
  \/ SaveThrows /\ UNCHANGED <<orchVars, dedupVars, mergeVars, agentVars, filterVars, enrichVars, lateVars>>
  \/ SaveBatch /\ UNCHANGED <<orchVars, dedupVars, mergeVars, agentVars, filterVars, enrichVars, lateVars>>
  \/ SaveReturn /\ UNCHANGED <<orchVars, dedupVars, mergeVars, agentVars, filterVars, enrichVars, lateVars>>

SpecSave == InitSave /\ [][NextSave]_vars

IdleEarly ==
  IdleOrch /\ IdleDedup /\ IdleMerge /\ IdleAgent /\ IdleFilter /\ IdleEnrich /\ IdleSave

earlyVars == <<orchVars, dedupVars, mergeVars, agentVars, stepVars>>

InitStore == StoreInit /\ IdleEarly /\ IdleLimiter /\ IdleFlight /\ IdleLoop /\ IdleJoin

NextStore == StoreRun /\ UNCHANGED <<earlyVars, limiterVars, flightVars, loopVars, joinVars>>

SpecStore == InitStore /\ [][NextStore]_vars

InitLimiter == LimiterInit /\ IdleEarly /\ IdleStore /\ IdleFlight /\ IdleLoop /\ IdleJoin

NextLimiter ==
  \/ \E c \in Callers : WaitForSlot(c) /\ UNCHANGED <<earlyVars, storeVars, flightVars, loopVars, joinVars>>
  \/ \E c \in Callers : TimerFires(c) /\ UNCHANGED <<earlyVars, storeVars, flightVars, loopVars, joinVars>>
  \/ Tick /\ UNCHANGED <<earlyVars, storeVars, flightVars, loopVars, joinVars>>
  \/ TimePasses /\ UNCHANGED <<earlyVars, storeVars, flightVars, loopVars, joinVars>>

SpecLimiter == InitLimiter /\ [][NextLimiter]_vars

InitFlight == FlightInit /\ IdleEarly /\ IdleStore /\ IdleLimiter /\ IdleLoop /\ IdleJoin

NextFlight ==
  \/ \E i \in DOMAIN qProps : StartRecord(i) /\ UNCHANGED <<earlyVars, storeVars, limiterVars, loopVars, joinVars>>
  \/ \E i \in DOMAIN qProps : ValuationAnswered(i) /\ UNCHANGED <<earlyVars, storeVars, limiterVars, loopVars, joinVars>>
  \/ \E i \in DOMAIN qProps : Geocode(i) /\ UNCHANGED <<earlyVars, storeVars, limiterVars, loopVars, joinVars>>
  \/ \E i \in DOMAIN qProps : GeocoderAnswered(i) /\ UNCHANGED <<earlyVars, storeVars, limiterVars, loopVars, joinVars>>
  \/ \E i \in DOMAIN qProps : DelayOver(i) /\ UNCHANGED <<earlyVars, storeVars, limiterVars, loopVars, joinVars>>

SpecFlight == InitFlight /\ [][NextFlight]_vars

InitLoop == LoopInit /\ IdleEarly /\ IdleStore /\ IdleLimiter /\ IdleFlight /\ IdleJoin

NextLoop == LoopRuns /\ UNCHANGED <<earlyVars, storeVars, limiterVars, flightVars, joinVars>>

SpecLoop == InitLoop /\ [][NextLoop]_vars

\* the most agent calls of one run whose completion order is followed
MaxJoined == 3

\* runSearch up to the call of enrichProperties, with no source asked for
\* and the order in which the calls complete written down
JoinInit ==
  /\ OrchInit
  /\ params.city = Some(CityMesa) /\ params.state = Some(StateAZ)
  /\ params.source = Null /\ params.minPrice = Null
  /\ Len(SelectAgents(params, env)) <= MaxJoined
  /\ settleOrder = << >>

\* one agent call settles; its name goes to the end of settleOrder
AgentSettlesNoted ==
  /\ AgentSettles
  /\ settleOrder' = Append(settleOrder, CHOOSE f \in DOMAIN settled' : f \notin DOMAIN settled)

InitJoin ==
  JoinInit /\ IdleDedup /\ IdleMerge /\ IdleAgent /\ IdleFilter /\ IdleEnrich /\ IdleSave
    /\ IdleStore /\ IdleLimiter /\ IdleFlight /\ IdleLoop

NextJoin ==
  \/ RunSearchStarts /\ UNCHANGED <<dedupVars, mergeVars, agentVars, stepVars, lateVars>>
  \/ AgentSettlesNoted
       /\ UNCHANGED <<dedupVars, mergeVars, agentVars, stepVars, storeVars, limiterVars,
                      flightVars, loopVars>>
  \/ Join /\ UNCHANGED <<dedupVars, mergeVars, agentVars, stepVars, lateVars>>

SpecJoin == InitJoin /\ [][NextJoin]_vars

-----------------------------------------------------------------------------
(* Properties of the price filter (SpecFilter) *)

\* the price as the claim words it: listPrice, else estimatedValue, else 0
StatedPrice(q) ==
  IF q.listPrice # Null THEN q.listPrice[1]
  ELSE IF q.estimatedValue # Null THEN q.estimatedValue[1] ELSE 0

WithinBounds(q) ==
  /\ StatedPrice(q) >= (IF fParams.minPrice = Null THEN 0 ELSE fParams.minPrice[1])
  /\ (fParams.maxPrice = Null \/ StatedPrice(q) <= fParams.maxPrice[1])

\* C15: whenever a minPrice and/or a maxPrice is given, the records that go
\* on to enrichment are exactly the records of the list whose price lies in
\* [min, max], both ends included, min being 0 and max unbounded when absent.
C15_BoundsKeepExactlyTheRange ==
  (fDone /\ (fParams.minPrice # Null \/ fParams.maxPrice # Null)) =>
    fOut = SelectSeq(fProps, WithinBounds)

\* maxPrice 0 and no minPrice: a record listed at 100 goes on to enrichment
C15_ZeroMaxPriceFiltersNothing ==
  /\ fDone
  /\ fParams = [minPrice |-> Null, maxPrice |-> Some(0)]
  /\ Len(fProps) = 1
  /\ fProps[1].listPrice = Some(100)
  /\ fOut = fProps

-----------------------------------------------------------------------------
(* C16, C17: the equity step of enrichProperty *)

\* record i has been through enrichProperty without a failure
Enriched(i) == i \in DOMAIN eResults /\ ~eLog[i].failed

\* the value of an enriched record: its zestimate, else its estimatedValue
ValueOf(q) == IF q.zestimate # Null THEN q.zestimate ELSE q.estimatedValue

\* C16: a record that entered enrichProperty with an empty equityEstimate and
\* has both a value (zestimate, else estimatedValue) and a loanBalance leaves
\* it with equityEstimate = value - loanBalance, a negative difference included.
C16_EquityIsValueMinusLoan ==
  \A i \in DOMAIN eResults :
    (/\ Enriched(i)
     /\ eProps[i].equityEstimate = Null
     /\ ValueOf(eResults[i]) # Null
     /\ eResults[i].loanBalance # Null) =>
       eResults[i].equityEstimate =
         Some(ValueOf(eResults[i])[1] - eResults[i].loanBalance[1])

\* a zestimate of 105 and a loanBalance of 0: the equity stays empty
C16_ZeroLoanLeavesEquityEmpty ==
  /\ Enriched(1)
  /\ eProps[1].equityEstimate = Null
  /\ eResults[1].zestimate = Some(105)
  /\ eResults[1].loanBalance = Some(0)
  /\ eResults[1].equityEstimate = Null

\* C17: a record that enters enrichProperty with a non-null equityEstimate
\* leaves it with the same equityEstimate, whatever its zestimate,
\* estimatedValue and loanBalance are.
C17_PopulatedEquityIsKept ==
  \A i \in DOMAIN eResults :
    (Enriched(i) /\ eProps[i].equityEstimate # Null) =>
      eResults[i].equityEstimate = eProps[i].equityEstimate

\* an equityEstimate of 5 is replaced by 105 - 50
C17_PopulatedEquityOverwritten ==
  /\ Enriched(1)
  /\ eProps[1].equityEstimate = Some(5)
  /\ eProps[1].zestimate = Some(105)
  /\ eProps[1].loanBalance = Some(50)
  /\ eResults[1].equityEstimate = Some(55)

-----------------------------------------------------------------------------
(* C18: the ARV step of enrichProperty *)

\* arv is exactly price x tenths / 10
IsTimes(arv, price, tenths) == arv # Null /\ 10 * arv[1] = tenths * price[1]

\* arv is price x tenths / 10 rounded to the nearest integer, a half going up
IsNearestTimes(arv, price, tenths) ==
  arv # Null /\ 10 * arv[1] - tenths * price[1] \in -4..5

\* a price that is there: neither null nor 0
Present(v) == v # Null /\ v[1] # 0

\* the chain as the spec words it, for the record q that entered and r that left
ArvAsStated(q, r) ==
  IF q.arvEstimate # Null THEN r.arvEstimate = q.arvEstimate
  ELSE IF r.zestimate # Null THEN IsTimes(r.arvEstimate, r.zestimate, 11)
  ELSE IF r.estimatedValue # Null THEN IsTimes(r.arvEstimate, r.estimatedValue, 11)
  ELSE IF r.listPrice # Null THEN IsTimes(r.arvEstimate, r.listPrice, 13)
  ELSE r.arvEstimate = Null

\* the chain with rounding, and with 0 counted as no price
ArvRounded(q, r) ==
  IF Present(q.arvEstimate) THEN r.arvEstimate = q.arvEstimate
  ELSE IF Present(r.zestimate) THEN IsNearestTimes(r.arvEstimate, r.zestimate, 11)
  ELSE IF Present(r.estimatedValue)
       THEN IsNearestTimes(r.arvEstimate, r.estimatedValue, 11)
  ELSE IF Present(r.listPrice) THEN IsNearestTimes(r.arvEstimate, r.listPrice, 13)
  ELSE r.arvEstimate = q.arvEstimate

\* C18 as stated: an empty arvEstimate becomes zestimate x 1.10 if a zestimate
\* exists after the lookup, else estimatedValue x 1.10, else listPrice x 1.30,
\* and stays empty when there is none of the three; a populated one is kept.
C18_AsStated ==
  \A i \in DOMAIN eResults : Enriched(i) => ArvAsStated(eProps[i], eResults[i])

\* C18: an arvEstimate that is null or 0 becomes the nearest integer to
\* zestimate x 1.10 if the zestimate after the lookup is non-zero (whatever the
\* listPrice), else to estimatedValue x 1.10, else to listPrice x 1.30, and is
\* left as it was when none of the three is non-zero; a non-zero arvEstimate
\* is kept.
C18_ArvChainRounded ==
  \A i \in DOMAIN eResults : Enriched(i) => ArvRounded(eProps[i], eResults[i])

\* a zestimate of 105 beside a listPrice of 100 gives an arvEstimate of 116
C18_Witness ==
  /\ Enriched(1)
  /\ eProps[1].arvEstimate = Null
  /\ eProps[1].listPrice = Some(100)
  /\ eResults[1].zestimate = Some(105)
  /\ eResults[1].arvEstimate = Some(116)

-----------------------------------------------------------------------------
(* C19: enrichProperties keeps length and order *)

\* what position i of the output has to hold
ExpectedAt(i) ==
  IF eLog[i].failed THEN eProps[i]
  ELSE enrichProperty(eProps[i], eLog[i].lookup, eLog[i].geo)

\* C19: the list enrichProperties has built after k iterations holds, at each
\* position i <= k, the enriched form of input record i, or input record i
\* itself when enriching it failed; so the returned list has the length and
\* the order of the input, no record dropped or duplicated.
C19_SameLengthAndOrder ==
  /\ Len(eResults) = eIdx - 1
  /\ eIdx <= Len(eProps) + 1
  /\ \A i \in DOMAIN eResults : eResults[i] = ExpectedAt(i)

\* two different records, the first fails and comes back as it was, the second
\* comes back enriched
C19_Witness ==
  /\ eIdx = Len(eProps) + 1
  /\ Len(eProps) = 2
  /\ eProps[1] # eProps[2]
  /\ eLog[1].failed /\ ~eLog[2].failed
  /\ Len(eResults) = 2
  /\ eResults[1] = eProps[1]
  /\ eResults[2] # eProps[2]
  /\ eResults[2].address = eProps[2].address

-----------------------------------------------------------------------------
(* C20: a persistence failure part-way through *)

\* the batches whose upsert answered with an error
FailedBatches == {k \in DOMAIN sBatches : sBatches[k] = "error"}

\* the records of the batches that went through before the first failure
SavedBeforeFailure ==
  Min(sN, batchSize * Cardinality({k \in DOMAIN sBatches : \A j \in 1..k : sBatches[j] = "ok"}))

\* persistence is over and failed: getServiceClient threw, or a batch failed
PersistenceFailed ==
  sPc = "done" /\ sN > 0 /\ (sBatches = << >> \/ FailedBatches # {})

\* C20: when persistence fails, the failure is exactly one entry of errors and
\* totalSaved is the number of records in the batches that succeeded before
\* the failure.
C20_OneErrorAndPartialCount ==
  PersistenceFailed => (Len(sErrors) = 1 /\ sTotalSaved = SavedBeforeFailure)

\* 150 records, the second of three batches fails: no entry in errors, and
\* totalSaved counts the third batch as well
C20_FailedBatchIsNotReported ==
  /\ sPc = "done"
  /\ sN = 150
  /\ sBatches = <<"ok", "error", "ok">>
  /\ sErrors = << >>
  /\ sTotalSaved = 100

-----------------------------------------------------------------------------
(* C21: a second ingestion of the same address *)

\* two rows are rows of the same property address: deduplication would give
\* them one key
SameAddress(r1, r2) ==
  /\ ~TooShort(DedupKey(r1))
  /\ DedupKey(r1) = DedupKey(r2)

\* C21: after any sequence of runs the table holds at most one row per
\* property address, a later run that finds the address again updating the
\* row rather than adding one.
C21_OneRowPerAddress ==
  \A r1, r2 \in stRows : SameAddress(r1, r2) => r1 = r2

\* the first run stored '12 Main St', the second finds '12 MAIN STREET': two rows
C21_SecondRowForSameAddress ==
  /\ stRuns = 2
  /\ Cardinality(stRows) = 2
  /\ \E r1, r2 \in stRows :
       /\ r1.address = AddrMain /\ r1.source = <<"zillow">>
       /\ r2.address = AddrMainLong /\ r2.source = <<"attom">>

-----------------------------------------------------------------------------
(* C22: the quota of the ATTOM rate limiter *)

\* the requests let through in the windowMs up to and including time t
AdmittedInWindow(t) ==
  Cardinality({j \in DOMAIN lAdmitted : lAdmitted[j] <= t /\ t - lAdmitted[j] < windowMs})

\* C22: whatever the interleaving of the callers, at most maxRequests requests
\* are let through within any rolling window of windowMs (the window ending at
\* each admission is within the quota).
C22_QuotaPerRollingWindow ==
  \A i \in DOMAIN lAdmitted : AdmittedInWindow(lAdmitted[i]) <= maxRequests

\* one request at 0 and 49 at 1000 fill the window; both callers then wait
\* for the same moment and both are let through at 60100: 51 requests in the
\* window ending there
C22_BothWaitersAdmittedAtOnce ==
  /\ Len(lAdmitted) = 52
  /\ lAdmitted[1] = 0
  /\ lAdmitted[2] = 1000 /\ lAdmitted[50] = 1000
  /\ lAdmitted[51] = 60100 /\ lAdmitted[52] = 60100
  /\ lNow = 60100
  /\ Waiting = {}
  /\ AdmittedInWindow(lNow) = 51

-----------------------------------------------------------------------------
(* C23: the source tag of an agent's records *)

\* C23: every record of the properties list an agent returns has the agent's
\* own name, the agent field of the same AgentResult, as its source.
C23_SourceIsAgentName ==
  aOutcome = "resolved" =>
    \A i \in DOMAIN aResult.properties :
      aResult.properties[i].source = <<AgentName(aFn)>>

\* searchAllForeclosureSites returns a record tagged 'foreclosure.com'
C23_SiteNameAsSource ==
  /\ aOutcome = "resolved"
  /\ aFn = "searchAllForeclosureSites"
  /\ AgentName(aFn) = "foreclosure-sites"
  /\ \E i \in DOMAIN aResult.properties :
       aResult.properties[i].source = <<"foreclosure.com">>

-----------------------------------------------------------------------------
(* C24: enrichProperties works on one record at a time *)

\* the iteration of record i has begun
Begun(i) == qPc[i] # "waiting"

\* C24: the enrichment of a record begins only when the enrichment of every
\* record before it is over and the delay after it has elapsed, and at most
\* one valuation or geocoder request is under way at any time.
C24_OneRecordAtATime ==
  /\ \A i \in DOMAIN qProps :
       Begun(i) => \A k \in 1..(i - 1) : qPc[k] = "delayed"
  /\ Cardinality(qInFlight) <= 1

\* the geocoder request of the second record is under way, the first record
\* having had both of its requests answered and its delay
C24_Witness ==
  /\ Len(qProps) >= 2
  /\ NeedsValuation(qProps[1], qKey) /\ NeedsGeocoding(qProps[1])
  /\ qPc[1] = "delayed"
  /\ qInFlight = {<<2, "geocoder">>}

-----------------------------------------------------------------------------
(* C25: the sub-scrapes of the county-records and foreclosure-sites agents *)

\* the sub-scrapes of the search function called (none for the other agents,
\* and none for a county that is not supported)
SubScrapes ==
  IF aFn = "searchNODFilings" /\ CountySupported(aEnv.county, StateAZ)
  THEN {"NOD", "LP", "NTS", "tax"}
  ELSE IF aFn = "searchAllForeclosureSites" THEN {Scrapers[i] : i \in DOMAIN Scrapers}
  ELSE {}

\* the entries of the returned errors that come from sub-scrape s
ErrorsFrom(s) == {k \in DOMAIN aResult.errors : aResult.errors[k].from = s}

\* C25: in an agent that runs several sub-scrapes, every sub-scrape is run
\* whichever of the others fail, and every sub-scrape that fails adds an
\* AgentError to the agent's result.
C25_SubScrapeFailuresReported ==
  (aOutcome = "resolved" /\ SubScrapes # {}) =>
    /\ aLog.made = SubScrapes
    /\ \A s \in aLog.failed : ErrorsFrom(s) # {}

\* the first recorder search and the tax-delinquency search both fail: all
\* four sub-scrapes were run, and the result has one AgentError
C25_TwoFailuresOneError ==
  /\ aOutcome = "resolved"
  /\ aFn = "searchNODFilings"
  /\ aLog.made = {"NOD", "LP", "NTS", "tax"}
  /\ aLog.failed = {"NOD", "tax"}
  /\ Len(aResult.errors) = 1
  /\ ErrorsFrom("tax") = {}

-----------------------------------------------------------------------------
(* C26: a record whose mapping fails *)

\* the records whose mapping throws
Failing == {i \in DOMAIN rRecords : rRecords[i] = "throws"}

\* C26: in every agent, each record whose mapping fails is skipped and
\* recorded as exactly one AgentError, and every other record of the response
\* is mapped and returned.
C26_OneErrorPerFailedRecord ==
  rDone =>
    /\ Range(rOut.properties) = DOMAIN rRecords \ Failing
    /\ Len(rOut.errors) = Cardinality(Failing)

\* parseMaricopaResults: the second of three rows cannot be mapped; the other
\* two are returned and no AgentError tells of the row left out
C26_RowSkippedSilently ==
  /\ rDone
  /\ rLoop = "parseMaricopaResults"
  /\ rRecords = <<"ok", "throws", "ok">>
  /\ rOut.properties = <<1, 3>>
  /\ rOut.errors = << >>

-----------------------------------------------------------------------------
(* C27: the batches of saveProperties *)

\* the records of the k-th batch of 50: positions First(k) .. Last(k)
FirstOfBatch(k) == 50 * (k - 1) + 1

LastOfBatch(k) == IF 50 * k < sN THEN 50 * k ELSE sN

\* the records in the batches upserted so far without an error
RecordsSaved ==
  UNION {FirstOfBatch(k)..LastOfBatch(k) : k \in {j \in DOMAIN sBatches : sBatches[j] = "ok"}}

\* the records in the batches attempted so far
RecordsAttempted == UNION {FirstOfBatch(k)..LastOfBatch(k) : k \in DOMAIN sBatches}

\* C27: saveProperties upserts its input in consecutive batches of at most 50
\* records and attempts every batch, whether or not an earlier one reported an
\* error; the count it returns is the number of records in the batches that
\* reported none.
C27_EveryBatchAttempted ==
  /\ sPc = "loop" =>
       /\ RecordsAttempted = 1..(IF sI < sN THEN sI ELSE sN)
       /\ sSaved = Cardinality(RecordsSaved)
  /\ (sPc = "done" /\ sBatches # << >>) =>
       /\ RecordsAttempted = 1..sN
       /\ \A k \in DOMAIN sBatches : LastOfBatch(k) - FirstOfBatch(k) + 1 \in 1..50
       /\ sTotalSaved = Cardinality(RecordsSaved)

\* 120 records: batches of 50, 50 and 20; the second reports an error, the
\* third is attempted all the same, and 70 is returned
C27_Witness ==
  /\ sPc = "done"
  /\ sN = 120
  /\ sBatches = <<"ok", "error", "ok">>
  /\ sTotalSaved = 70

-----------------------------------------------------------------------------
(* The order in which the agent calls complete (SpecJoin) *)

\* what the calls at positions 1..k of agentPromises found, in that order
RECURSIVE FoundBySelection(_)
FoundBySelection(k) ==
  IF k = 0 THEN << >>
  ELSE FoundBySelection(k - 1) \o
         (IF settled[agentPromises[k].fn].status = "fulfilled"
          THEN settled[agentPromises[k].fn].value.properties
          ELSE << >>)

\* the position at which a call completed
CompletedAt(fn) == CHOOSE k \in DOMAIN settleOrder : settleOrder[k] = fn

\* C28: once the agent calls have all settled, the deduplicated list that
\* runSearch goes on with is the one obtained from the records of the calls
\* taken in the order the calls were selected, whatever the order in which
\* they completed.
C28_CompletionOrderIrrelevant ==
  pc = "enrich" =>
    /\ totals.totalFound = Len(FoundBySelection(Len(agentPromises)))
    /\ allProperties =
         PriceFilter(deduplicateProperties(FoundBySelection(Len(agentPromises))), params)

\* zillowSearch was selected before searchNODFilings and completed after
\* it; both found the same house and the two records were merged
C28_Witness ==
  /\ pc = "enrich"
  /\ Len(agentPromises) = 3
  /\ agentPromises[1].fn = "zillowSearch" /\ agentPromises[3].fn = "searchNODFilings"
  /\ CompletedAt("searchNODFilings") < CompletedAt("zillowSearch")
  /\ settled["zillowSearch"].status = "fulfilled"
  /\ settled["zillowSearch"].value.properties # << >>
  /\ settled["searchNODFilings"].status = "fulfilled"
  /\ settled["searchNODFilings"].value.properties # << >>
  /\ totals.totalAfterDedup < totals.totalFound
  /\ allProperties[1].address = AddrMain

-----------------------------------------------------------------------------
(* C29: the conflict keys within one upsert *)

\* C29: the rows of one upsert, made from the output of
\* deduplicateProperties, have pairwise different (address, city, state), so
\* that no statement holds two rows with the same conflict key.
C29_DistinctConflictKeys ==
  \A i, j \in DOMAIN stLast.batch :
    (/\ stLast.batch[i].address = stLast.batch[j].address
     /\ stLast.batch[i].city = stLast.batch[j].city
     /\ stLast.batch[i].state = stLast.batch[j].state) => i = j

\* one run finds '12 Main St' with its zip (zillow) and without (county
\* records): deduplication keeps both, the upsert holds two rows with one
\* conflict key and nothing of it is stored
C29_SameKeyTwiceInBatch ==
  /\ stRuns = 1
  /\ Len(stLast.batch) = 2
  /\ ~stLast.error
  /\ stLast.batch[1].address = AddrMain /\ stLast.batch[2].address = AddrMain
  /\ stLast.batch[1].city = stLast.batch[2].city
  /\ stLast.batch[1].state = stLast.batch[2].state
  /\ stLast.batch[1].zip = Zip85201 /\ stLast.batch[2].zip = << >>
  /\ stRows = {}

-----------------------------------------------------------------------------
(* C30: the totals of a run *)

\* the number of records in a list of envelopes
RECURSIVE RecordsIn(_)
RecordsIn(results) ==
  IF results = << >> THEN 0
  ELSE Len(Head(results).properties) + RecordsIn(Tail(results))

\* C30: the totals of a run never grow from one stage to the next,
\* totalFound >= totalAfterDedup >= totalEnriched >= totalSaved, and
\* totalFound is the number of records in the envelopes of agentResults.
C30_TotalsDescend ==
  /\ totals.totalFound >= totals.totalAfterDedup
  /\ totals.totalAfterDedup >= totals.totalEnriched
  /\ totals.totalEnriched >= totals.totalSaved
  /\ totals.totalFound = RecordsIn(agentResults)

\* five agents found one record each, three were duplicates, the price
\* filter dropped one of the two left and the store took the other
C30_Witness ==
  /\ pc = "done" /\ outcome = "returned"
  /\ Len(agentResults) = 5
  /\ totals = [totalFound |-> 5, totalAfterDedup |-> 2, totalEnriched |-> 1,
               totalSaved |-> 1]

=============================================================================
